---- MODULE Spec2Model ----
(***************************************************************************)
(* Model of scripts/local_gmv.py (jakewalter/gmv): one run of main(), the  *)
(* SEG-Y geometry scale heuristic, the time grid built by prepare_meta,    *)
(* prepare_meta and make_animation frame by frame, and of the loop of the  *)
(* batch scripts src/gmv_batch_m8_catalog.py and src/gmv_batch_ok_local.py.*)
(*                                                                         *)
(* Conventions.  Times are whole seconds; a trace has sr samples every den  *)
(* seconds (sampling_rate = sr / den).  Latitudes and longitudes are       *)
(* held in micro-degrees.  A SEG-Y GroupX/GroupY header value h is held as *)
(* h / 1000, so that the candidate scale 1e-k multiplies the held value by *)
(* 10^(3-k).  Python's None is the empty tuple << >> and a present value   *)
(* v is <<v>>.  A dict is a function; where the code depends on the        *)
(* insertion order of a dict the keys are kept in a sequence beside it.    *)
(***************************************************************************)
EXTENDS Integers, Sequences, FiniteSets, TLC

(* ------------------------------------------------------------------ *)
(* Bounds of the model                                                  *)
(* ------------------------------------------------------------------ *)
MaxFiles == 2
MaxHdr == 20
MaxGridEnd == 12
MaxTraces == 3
MaxQuakes == 4

(* ------------------------------------------------------------------ *)
(* Arithmetic helpers                                                   *)
(* ------------------------------------------------------------------ *)
Abs(x) == IF x < 0 THEN -x ELSE x

Max2(a, b) == IF a > b THEN a ELSE b

RECURSIVE Pow10(_)
Pow10(n) == IF n = 0 THEN 1 ELSE 10 * Pow10(n - 1)

\* np.ceil(a / b) for b # 0
CeilDiv(a, b) ==
    IF b > 0
    THEN IF a >= 0 THEN (a + b - 1) \div b ELSE -((-a) \div b)
    ELSE IF a >= 0 THEN -(a \div (-b)) ELSE ((-a) + (-b) - 1) \div (-b)

\* dict.update(): every key of e is set, the other keys of d are kept
DictUpdate(d, e) ==
    [k \in (DOMAIN d) \cup (DOMAIN e) |-> IF k \in DOMAIN e THEN e[k] ELSE d[k]]

EmptyDict == [k \in {} |-> << >>]

\* obspy round_away(n / d), d > 0: the nearest integer, a half goes away from 0
RoundAway(n, d) ==
    IF n >= 0 THEN (2 * n + d) \div (2 * d) ELSE -((2 * (-n) + d) \div (2 * d))

\* Python round(n / d), d > 0: the nearest integer, a half goes to the even one
RoundHalfEven(n, d) ==
    LET q == n \div d
        r == n % d
    IN  IF 2 * r < d THEN q
        ELSE IF 2 * r > d THEN q + 1
        ELSE IF q % 2 = 0 THEN q ELSE q + 1

(* ------------------------------------------------------------------ *)
(* _pick_segy_scale and the fallback of segy_to_stream                  *)
(* ------------------------------------------------------------------ *)
\* candidates = [1e-3, ..., 1e-9], each held as its exponent k (scale 1e-k)
Candidates == <<3, 4, 5, 6, 7, 8, 9>>

\* "-180 < v * 1e-k < 180" for a header value 1000 * v
InOpenRange(v, k, lim) == (Abs(v) \div Pow10(k - 3)) < lim

\* variant: the latitude test is left out
PairOkLonOnly(gx, gy, k) == InOpenRange(gx, k, 180)

\* one element of the array ok of line 111
PairOk(gx, gy, k) == InOpenRange(gx, k, 180) /\ InOpenRange(gy, k, 90)

\* np.sum(ok) for candidate k
SumOk(gx_vals, gy_vals, k) ==
    Cardinality({i \in 1..Len(gx_vals) : PairOk(gx_vals[i], gy_vals[i], k)})

\* variant: a later candidate with an equal score replaces the best one
ScoreBetterOrEqual(s, b) == s >= b

\* "score > best_score" with score = s / n and best_score = b / n
ScoreBetter(s, b) == s > b

\* the loop of lines 108-115; scores are kept as numerators over len(ok),
\* best_score = -1 is the numerator -n
RECURSIVE ScanCandidates(_, _, _, _, _)
ScanCandidates(gx_vals, gy_vals, i, best, best_num) ==
    IF i > Len(Candidates) THEN [best |-> best, num |-> best_num]
    ELSE LET s == SumOk(gx_vals, gy_vals, Candidates[i])
         IN  IF ScoreBetter(s, best_num)
             THEN ScanCandidates(gx_vals, gy_vals, i + 1, <<Candidates[i]>>, s)
             ELSE ScanCandidates(gx_vals, gy_vals, i + 1, best, best_num)

\* best_score >= 0.95, i.e. num / n >= 95 / 100
Confident(num, n) == num * 100 >= 95 * n

\* result: [kind |-> "raise"] for the ZeroDivisionError of line 112 on an
\* empty array, otherwise [kind |-> "ok", val |-> <<k>> or << >> (None)]
PickSegyScale(gx_vals, gy_vals) ==
    LET n == Len(gx_vals)
    IN  IF n = 0 THEN [kind |-> "raise", val |-> << >>]
        ELSE LET r == ScanCandidates(gx_vals, gy_vals, 1, << >>, -n)
             IN  IF Confident(r.num, n)
                 THEN [kind |-> "ok", val |-> r.best]
                 ELSE [kind |-> "ok", val |-> << >>]

\* lines 152-155: the scale segy_to_stream uses
DefaultScale == 6

ResolveScale(gx_vals, gy_vals) ==
    LET p == PickSegyScale(gx_vals, gy_vals)
    IN  IF p.kind = "raise" THEN p
        ELSE IF p.val = << >> THEN [kind |-> "ok", val |-> <<DefaultScale>>]
        ELSE p

(* ------------------------------------------------------------------ *)
(* Traces, files and station metadata the runs are drawn from           *)
(* ------------------------------------------------------------------ *)
TrRate(net, sta, t0, den, data, sac) ==
    [net |-> net, sta |-> sta, starttime |-> t0, sr |-> 1, den |-> den,
     data |-> data, sac |-> sac]

\* a trace of one sample per second
Tr(net, sta, t0, data, sac) == TrRate(net, sta, t0, 1, data, sac)

\* Trace.stats.endtime
EndTime(tr) ==
    IF tr.data = << >> THEN tr.starttime
    ELSE tr.starttime + (((Len(tr.data) - 1) * tr.den) \div tr.sr)

\* stream_station_key, lines 94-99: Stats always holds a network code, ''
\* when the file gave none, so the f-string does not raise and the except
\* branch is not taken
stream_station_key(tr) == tr.net \o "." \o tr.sta

Hdr(gx, gy, seq, t0, data) ==
    [gx |-> gx, gy |-> gy, seq |-> seq, starttime |-> t0, data |-> data]

NoSegy == [ok |-> FALSE, hdrs |-> << >>]

NoRead == [ok |-> FALSE, traces |-> << >>]

\* the files a data directory may hold, in the order sorted() gives them
FileUniverse == <<
    [name |-> "a_abc.sac", ext |-> "sac", segy |-> NoSegy,
     read |-> [ok |-> TRUE, traces |->
        <<Tr("XX", "ABC", 0, <<3, -5, 2, 0, 1>>, <<45100003, -123400003>>)>>]],
    [name |-> "b_def.mseed", ext |-> "mseed", segy |-> NoSegy,
     read |-> [ok |-> TRUE, traces |->
        <<Tr("XX", "DEF", 1, <<0, 0, 0>>, << >>),
          Tr("XX", "ABC", 3, <<7, 1>>, << >>)>>]],
    [name |-> "c_bad.mseed", ext |-> "mseed", segy |-> NoSegy, read |-> NoRead],
    [name |-> "d_line.sgy", ext |-> "sgy",
     segy |-> [ok |-> TRUE, hdrs |->
        <<Hdr(-97500, 35500, <<1>>, 0, <<1, 2, -4, 2>>),
          Hdr(-97600, 35600, << >>, 2, <<0, 9, 1>>)>>],
     read |-> NoRead],
    [name |-> "e_line.segy", ext |-> "segy",
     segy |-> [ok |-> TRUE, hdrs |-> <<Hdr(-98, 36, <<1>>, 0, <<6, 6>>)>>],
     read |-> [ok |-> TRUE, traces |-> <<Tr("", "1", 0, <<6, 6>>, << >>)>>]],
    [name |-> "f_sgy.sac", ext |-> "sac", segy |-> NoSegy,
     read |-> [ok |-> TRUE, traces |->
        <<Tr("SGY.SGY", "00001", 0, <<2, 2, 2>>, <<35000003, -97000003>>)>>]],
    [name |-> "g_raw.sgy", ext |-> "sgy", segy |-> NoSegy,
     read |-> [ok |-> TRUE, traces |->
        <<Tr("", "2", 0, <<5, 5>>, << >>), Tr("", "3", 0, <<4, 4>>, << >>)>>]]
    >>

NoXml == [given |-> FALSE, stations |-> << >>]

NoCsv == [given |-> FALSE, rows |-> << >>]

Xml1 == [given |-> TRUE, stations |->
    <<[net |-> "XX", sta |-> "ABC", lat |-> 45100001, lon |-> -123400001],
      [net |-> "SGY", sta |-> "SGY.00001", lat |-> 35000001, lon |-> -97000001]>>]

\* rows after the header line, each already split on ','
Csv1 == [given |-> TRUE, rows |->
    <<<<"XX", "ABC", 45100002, -123400002>>,
      <<"XX", "DEF", 45200002, -123500002>>,
      <<"SGY", "SGY.00002", 35000002, -97000002>>>>]

CsvNoMatch == [given |-> TRUE, rows |-> <<<<"ZZ", "NOPE", 10000002, 20000002>>>>]

CsvEmpty == [given |-> TRUE, rows |-> << >>]

Csv3Col == [given |-> TRUE, rows |->
    <<<<"ABC", 45100004, -123400004>>, <<"only", "two">>>>]

MetaChoices == {
    <<NoXml, NoCsv>>, <<Xml1, NoCsv>>, <<NoXml, Csv1>>, <<Xml1, Csv1>>,
    <<NoXml, CsvNoMatch>>, <<NoXml, CsvEmpty>>, <<NoXml, Csv3Col>>}

\* --start / --end: << >> when the option is absent
Windows == {
    << << >>, << >> >>, << <<0>>, <<4>> >>, << <<2>>, <<2>> >>, << <<1>>, << >> >>,
    << <<0>>, <<600>> >>, << <<0>>, <<1000000>> >>}

TimeSteps == {0, 1, 2}

\* <<--max-frames, --max-mem-mb>>
Budgets == {<<10000, 4096>>, <<100, 4096>>, <<2, 4096>>, <<10000000, 1>>}

\* the increasing index sequences of 1..n with at most m entries
RECURSIVE SortedPicks(_, _)
SortedPicks(n, m) ==
    IF n = 0 \/ m = 0 THEN {<< >>}
    ELSE SortedPicks(n - 1, m)
         \cup {Append(s, n) : s \in SortedPicks(n - 1, m - 1)}

FileLists ==
    {[i \in 1..Len(p) |-> FileUniverse[p[i]]] : p \in SortedPicks(Len(FileUniverse), MaxFiles)}

(* ------------------------------------------------------------------ *)
(* Position sources                                                     *)
(* ------------------------------------------------------------------ *)
\* inventory_to_positions: a later station with the same key replaces an earlier one
RECURSIVE inventory_to_positions(_)
inventory_to_positions(stations) ==
    IF stations = << >> THEN EmptyDict
    ELSE LET n == Len(stations)
             s == stations[n]
             d == inventory_to_positions(SubSeq(stations, 1, n - 1))
         IN  DictUpdate(d, [k \in {s.net \o "." \o s.sta} |-> <<s.lat, s.lon>>])

\* load_station_csv: 4 parts -> "net.sta", 3 parts -> "sta", other rows skipped
RECURSIVE load_station_csv(_)
load_station_csv(rows) ==
    IF rows = << >> THEN EmptyDict
    ELSE LET n == Len(rows)
             parts == rows[n]
             d == load_station_csv(SubSeq(rows, 1, n - 1))
         IN  IF Len(parts) = 4
             THEN DictUpdate(d, [k \in {parts[1] \o "." \o parts[2]} |-> <<parts[3], parts[4]>>])
             ELSE IF Len(parts) = 3
             THEN DictUpdate(d, [k \in {parts[1]} |-> <<parts[2], parts[3]>>])
             ELSE d

\* f"{trace_num:05d}" for the trace numbers of the model
Pad5(n) == "0000" \o <<"1", "2", "3", "4", "5", "6", "7", "8", "9">>[n]

\* lines 160-161
SegyTraceNum(hdr, i) == IF hdr.seq # << >> THEN hdr.seq[1] ELSE i

\* lines 172-176: the trace built for header i
SegyTrace(hdr, i) ==
    Tr("SGY", "SGY." \o Pad5(SegyTraceNum(hdr, i)), hdr.starttime, hdr.data, << >>)

\* lines 180-182: (lat, lon) = (GroupY * scale, GroupX * scale) in micro-degrees
SegyPosition(hdr, k) == <<hdr.gy * Pow10(9 - k), hdr.gx * Pow10(9 - k)>>

RECURSIVE SegyPositions(_, _, _)
SegyPositions(hdrs, n, k) ==
    IF n = 0 THEN EmptyDict
    ELSE DictUpdate(SegyPositions(hdrs, n - 1, k),
                    [key \in {stream_station_key(SegyTrace(hdrs[n], n))}
                        |-> SegyPosition(hdrs[n], k)])

\* segy_to_stream: [kind |-> "raise"] or the pair (st, positions)
segy_to_stream(f) ==
    IF ~f.segy.ok THEN [kind |-> "raise", st |-> << >>, positions |-> EmptyDict]
    ELSE LET hdrs == f.segy.hdrs
             sc == ResolveScale([i \in 1..Len(hdrs) |-> hdrs[i].gx],
                                [i \in 1..Len(hdrs) |-> hdrs[i].gy])
         IN  IF sc.kind = "raise"
             THEN [kind |-> "raise", st |-> << >>, positions |-> EmptyDict]
             ELSE [kind |-> "ok",
                   st |-> [i \in 1..Len(hdrs) |-> SegyTrace(hdrs[i], i)],
                   positions |-> SegyPositions(hdrs, Len(hdrs), sc.val[1])]

\* variant: a SAC header replaces a position that is already there
RECURSIVE MergeSacHeadersOverwrite(_, _)
MergeSacHeadersOverwrite(pos, traces) ==
    IF traces = << >> THEN pos
    ELSE LET tr == Head(traces)
             key == stream_station_key(tr)
         IN  IF tr.sac # << >>
             THEN MergeSacHeadersOverwrite(DictUpdate(pos, [k \in {key} |-> tr.sac]), Tail(traces))
             ELSE MergeSacHeadersOverwrite(pos, Tail(traces))

\* lines 339-346: SAC stla/stlo of the traces, an existing key is kept
RECURSIVE MergeSacHeaders(_, _)
MergeSacHeaders(pos, traces) ==
    IF traces = << >> THEN pos
    ELSE LET tr == Head(traces)
             key == stream_station_key(tr)
         IN  IF tr.sac # << >> /\ key \notin DOMAIN pos
             THEN MergeSacHeaders(DictUpdate(pos, [k \in {key} |-> tr.sac]), Tail(traces))
             ELSE MergeSacHeaders(pos, Tail(traces))

(* ------------------------------------------------------------------ *)
(* prepare_meta                                                         *)
(* ------------------------------------------------------------------ *)
\* variant: the sample at the window start itself is cut off as well
LtrimExclusive(tr, t) ==
    LET delta == RoundAway((t - tr.starttime) * tr.sr, tr.den)
    IN  IF delta < 0 THEN tr
        ELSE IF t > EndTime(tr) THEN [tr EXCEPT !.data = << >>]
        ELSE [tr EXCEPT !.starttime = tr.starttime + (((delta + 1) * tr.den) \div tr.sr),
                        !.data = SubSeq(tr.data, delta + 2, Len(tr.data))]

\* Trace.trim(start, end, pad=False, nearest_sample=True), left side
Ltrim(tr, t) ==
    LET delta == RoundAway((t - tr.starttime) * tr.sr, tr.den)
    IN  IF delta <= 0 THEN tr
        ELSE IF t > EndTime(tr) THEN [tr EXCEPT !.data = << >>]
        ELSE [tr EXCEPT !.starttime = tr.starttime + ((delta * tr.den) \div tr.sr),
                        !.data = SubSeq(tr.data, delta + 1, Len(tr.data))]

\* right side
Rtrim(tr, t) ==
    LET delta == RoundAway((t - tr.starttime) * tr.sr, tr.den) - Len(tr.data) + 1
    IN  IF delta >= 0 THEN tr
        ELSE IF t < tr.starttime THEN [tr EXCEPT !.data = << >>]
        ELSE [tr EXCEPT !.data = SubSeq(tr.data, 1, Len(tr.data) + delta)]

Trim(tr, t0, t1) == Rtrim(Ltrim(tr, t0), t1)

RECURSIVE MaxAbs(_)
MaxAbs(data) == IF data = << >> THEN 0 ELSE Max2(Abs(Head(data)), MaxAbs(Tail(data)))

\* variant: the peak is the largest magnitude itself
PeakAmplitudeRaw(data) == MaxAbs(data)

\* line 211: max(1.0, float(np.max(np.abs(tr2.data))))
PeakAmplitude(data) == Max2(1, MaxAbs(data))

\* variant: the end point belongs to the grid
GridPointsClosed(t0, stop, step) == {t \in t0..stop : (t - t0) % step = 0}

\* the values start + i * step (i = 0, 1, ...) of the half-open interval [start, stop)
GridPoints(t0, stop, step) == {t \in t0..(stop - 1) : (t - t0) % step = 0}

\* np.arange(start, stop, step): the grid points in increasing order
Arange(t0, stop, step) ==
    IF step > 0
    THEN [i \in 1..Cardinality(GridPoints(t0, stop, step)) |-> t0 + (i - 1) * step]
    ELSE << >>

\* variant: a trace is kept whether or not its key has a position
RECURSIVE PrepareLoopNoPositionCheck(_, _, _, _, _, _, _)
PrepareLoopNoPositionCheck(traces, pos, t0, t1, keys, station_traces_, station_max_) ==
    IF traces = << >>
    THEN [keys |-> keys, station_traces |-> station_traces_, station_max |-> station_max_]
    ELSE LET tr == Head(traces)
             key == stream_station_key(tr)
             tr2 == Trim(tr, t0, t1)
         IN  IF t0 > t1 \/ Len(tr2.data) = 0
             THEN PrepareLoopNoPositionCheck(Tail(traces), pos, t0, t1, keys,
                                             station_traces_, station_max_)
             ELSE PrepareLoopNoPositionCheck(Tail(traces), pos, t0, t1,
                     IF key \in DOMAIN station_traces_ THEN keys ELSE Append(keys, key),
                     DictUpdate(station_traces_, [k \in {key} |-> tr2]),
                     DictUpdate(station_max_, [k \in {key} |-> PeakAmplitude(tr2.data)]))

\* variant: the peak of a key is set by the first trace kept for it only
RECURSIVE PrepareLoopFirstPeak(_, _, _, _, _, _, _)
PrepareLoopFirstPeak(traces, pos, t0, t1, keys, station_traces_, station_max_) ==
    IF traces = << >>
    THEN [keys |-> keys, station_traces |-> station_traces_, station_max |-> station_max_]
    ELSE LET tr == Head(traces)
             key == stream_station_key(tr)
             tr2 == Trim(tr, t0, t1)
         IN  IF key \notin DOMAIN pos \/ t0 > t1 \/ Len(tr2.data) = 0
             THEN PrepareLoopFirstPeak(Tail(traces), pos, t0, t1, keys,
                                       station_traces_, station_max_)
             ELSE PrepareLoopFirstPeak(Tail(traces), pos, t0, t1,
                     IF key \in DOMAIN station_traces_ THEN keys ELSE Append(keys, key),
                     DictUpdate(station_traces_, [k \in {key} |-> tr2]),
                     IF key \in DOMAIN station_max_ THEN station_max_
                     ELSE DictUpdate(station_max_,
                                     [k \in {key} |-> PeakAmplitude(tr2.data)]))

\* variant: a trace left without samples by the trimming is kept
RECURSIVE PrepareLoopKeepEmpty(_, _, _, _, _, _, _)
PrepareLoopKeepEmpty(traces, pos, t0, t1, keys, station_traces_, station_max_) ==
    IF traces = << >>
    THEN [keys |-> keys, station_traces |-> station_traces_, station_max |-> station_max_]
    ELSE LET tr == Head(traces)
             key == stream_station_key(tr)
             tr2 == Trim(tr, t0, t1)
         IN  IF key \notin DOMAIN pos \/ t0 > t1
             THEN PrepareLoopKeepEmpty(Tail(traces), pos, t0, t1, keys,
                                       station_traces_, station_max_)
             ELSE PrepareLoopKeepEmpty(Tail(traces), pos, t0, t1,
                     IF key \in DOMAIN station_traces_ THEN keys ELSE Append(keys, key),
                     DictUpdate(station_traces_, [k \in {key} |-> tr2]),
                     DictUpdate(station_max_, [k \in {key} |-> PeakAmplitude(tr2.data)]))

\* the loop of lines 196-211 over the stream; keys holds the insertion
\* order of the dict station_traces
RECURSIVE PrepareLoop(_, _, _, _, _, _, _)
PrepareLoop(traces, pos, t0, t1, keys, station_traces_, station_max_) ==
    IF traces = << >>
    THEN [keys |-> keys, station_traces |-> station_traces_, station_max |-> station_max_]
    ELSE LET tr == Head(traces)
             key == stream_station_key(tr)
             tr2 == Trim(tr, t0, t1)
         IN  IF key \notin DOMAIN pos \/ t0 > t1 \/ Len(tr2.data) = 0
             THEN PrepareLoop(Tail(traces), pos, t0, t1, keys, station_traces_, station_max_)
             ELSE PrepareLoop(Tail(traces), pos, t0, t1,
                     IF key \in DOMAIN station_traces_ THEN keys ELSE Append(keys, key),
                     DictUpdate(station_traces_, [k \in {key} |-> tr2]),
                     DictUpdate(station_max_, [k \in {key} |-> PeakAmplitude(tr2.data)]))

prepare_meta(stream, pos, t0, t1, time_step) ==
    LET r == PrepareLoop(stream, pos, t0, t1, << >>, EmptyDict, EmptyDict)
    IN  [station_traces |-> r.station_traces,
         times |-> Arange(t0, t1, time_step),
         station_keys |-> r.keys,
         station_max |-> r.station_max]

(* ------------------------------------------------------------------ *)
(* make_animation: sampling a trace and the values of one frame         *)
(* ------------------------------------------------------------------ *)
\* variant: no lower bound check, a negative index counts from the end
sample_tr_at_time_wrap(tr, t) ==
    LET i == RoundHalfEven((t - tr.starttime) * tr.sr, tr.den)
    IN  IF i >= Len(tr.data) \/ i < -Len(tr.data) THEN 0
        ELSE IF i < 0 THEN tr.data[Len(tr.data) + i + 1]
        ELSE tr.data[i + 1]

\* lines 254-258; tr.data[i] of the code is tr.data[i + 1] here
sample_tr_at_time(tr, t) ==
    LET i == RoundHalfEven((t - tr.starttime) * tr.sr, tr.den)
    IN  IF i < 0 \/ i >= Len(tr.data) THEN 0
        ELSE tr.data[i + 1]

\* the float a / b, kept as the pair of its operands
Quot(a, b) == [num |-> a, den |-> b]

\* meta['station_max'].get(key, 1.0)
GetMax(maxes, key) == IF key \in DOMAIN maxes THEN maxes[key] ELSE 1

\* variant: the values are collected in the reverse order of the keys
FrameVectorReversed(keys, traces, maxes, t) ==
    [j \in 1..Len(keys) |->
        Quot(sample_tr_at_time(traces[keys[Len(keys) + 1 - j]], t),
             GetMax(maxes, keys[Len(keys) + 1 - j]))]

\* lines 270-275: the list vals of update(i), t = times[i]
FrameVector(keys, traces, maxes, t) ==
    [j \in 1..Len(keys) |->
        Quot(sample_tr_at_time(traces[keys[j]], t), GetMax(maxes, keys[j]))]

(* ------------------------------------------------------------------ *)
(* State                                                                *)
(* ------------------------------------------------------------------ *)
VARIABLES
    HAS_SEGYIO,        \* module flag of lines 45-53
    args,              \* the parsed command line
    pc,                \* position of main()
    files,             \* find_waveforms(args.data_dir)
    idx,               \* index of the next file of the loop of line 314
    st,                \* the Stream
    positions,         \* station key -> <<lat, lon>>
    start, end,        \* the movie window
    n_frames, n_stations,
    station_keys, station_traces, station_max, times,   \* result of prepare_meta
    outcome,           \* "" while running, then how the run ended
    exit_code,         \* << >> while running, then <<code>>
    prepare_invoked, animation_invoked, out_written,
    gx_vals, gy_vals, picked,     \* scale resolver: header arrays and result
    grid_args, grid,              \* time grid: <<start, end, step>> and result
    lats, lons,        \* make_animation: plotted coordinates, one per station key
    ref_amps,          \* make_animation: the reference time series
    frame_i,           \* << >>, then <<i>> of the last update(i)
    vals,              \* the array update(i) gave to sc.set_array
    raised,            \* "" or the exception make_animation raised
    features,          \* batch: the 'features' of the catalogue response
    earthquakes,       \* batch: the list get_usgs_earthquakes returned
    report_only,       \* batch: '--report-only' / '-r' given
    b_pc,              \* batch: position of main()
    eq_idx,            \* batch: idx of the for loop, 0 before the first iteration
    successful, failed,
    launched,          \* batch: earthquakes a GMV subprocess was started for
    interrupted_at     \* batch: << >>, then <<idx>> at the KeyboardInterrupt

mainVars == <<HAS_SEGYIO, args, pc, files, idx, st, positions, start, end,
              n_frames, n_stations, station_keys, station_traces, station_max,
              times, outcome, exit_code, prepare_invoked, animation_invoked,
              out_written>>

scaleVars == <<gx_vals, gy_vals, picked>>

gridVars == <<grid_args, grid>>

frameVars == <<lats, lons, ref_amps, frame_i, vals, raised>>

batchVars == <<features, earthquakes, report_only, b_pc, eq_idx, successful, failed,
               launched, interrupted_at>>

vars == <<mainVars, scaleVars, gridVars, frameVars, batchVars>>

ArgSets ==
    {[xml |-> m[1], csv |-> m[2], start |-> w[1], end |-> w[2], time_step |-> ts,
      max_frames |-> b[1], max_mem_mb |-> b[2], dry_run |-> dr] :
        m \in MetaChoices, w \in Windows, ts \in TimeSteps, b \in Budgets,
        dr \in BOOLEAN}

MainIdle ==
    /\ pc = "start" /\ files = << >> /\ idx = 1 /\ st = << >>
    /\ positions = EmptyDict /\ start = 0 /\ end = 0
    /\ n_frames = 0 /\ n_stations = 0
    /\ station_keys = << >> /\ station_traces = EmptyDict /\ station_max = EmptyDict
    /\ times = << >> /\ outcome = "" /\ exit_code = << >>
    /\ prepare_invoked = FALSE /\ animation_invoked = FALSE /\ out_written = FALSE

ScaleIdle == gx_vals = << >> /\ gy_vals = << >> /\ picked = << >>

GridIdle == grid_args = << >> /\ grid = << >>

FrameIdle ==
    /\ lats = << >> /\ lons = << >> /\ ref_amps = << >>
    /\ frame_i = << >> /\ vals = << >> /\ raised = ""

BatchIdle ==
    /\ features = << >> /\ earthquakes = << >>
    /\ report_only = FALSE /\ b_pc = "idle" /\ eq_idx = 0
    /\ successful = 0 /\ failed = 0 /\ launched = << >> /\ interrupted_at = << >>

Init ==
    /\ HAS_SEGYIO \in BOOLEAN
    /\ args \in ArgSets
    /\ MainIdle /\ ScaleIdle /\ GridIdle /\ FrameIdle /\ BatchIdle

(* ------------------------------------------------------------------ *)
(* main()                                                               *)
(* ------------------------------------------------------------------ *)
\* sys.exit(code)
Exit(code, how) ==
    /\ pc' = "exit" /\ exit_code' = <<code>> /\ outcome' = how

\* lines 304-311
FindWaveforms ==
    /\ pc = "start"
    /\ \E fl \in FileLists :
          /\ files' = fl
          /\ IF fl = << >>
             THEN Exit(1, "Failed")
             ELSE pc' = "read" /\ UNCHANGED <<exit_code, outcome>>
    /\ UNCHANGED <<HAS_SEGYIO, args, idx, st, positions, start, end, n_frames,
                   n_stations, station_keys, station_traces, station_max, times,
                   prepare_invoked, animation_invoked, out_written>>
    /\ UNCHANGED <<scaleVars, gridVars, frameVars, batchVars>>

\* variant: a file that cannot be read empties the stream
ReadWithObsPyReset(stream, f) == IF f.read.ok THEN stream \o f.read.traces ELSE << >>

\* lines 326-329: st += read(fn), a failure is a warning
ReadWithObsPy(stream, f) == IF f.read.ok THEN stream \o f.read.traces ELSE stream

\* one iteration of the loop of lines 314-329
ReadFile ==
    /\ pc = "read"
    /\ LET f == files[idx]
           isSegy == f.ext \in {"sgy", "segy"} /\ HAS_SEGYIO
           r == segy_to_stream(f)
       IN  IF isSegy /\ r.kind = "ok"
           THEN /\ st' = st \o r.st
                /\ positions' = DictUpdate(positions, r.positions)
           ELSE /\ st' = ReadWithObsPy(st, f)
                /\ positions' = positions
    /\ idx' = idx + 1
    /\ pc' = IF idx = Len(files) THEN "merge" ELSE "read"
    /\ UNCHANGED <<HAS_SEGYIO, args, files, start, end, n_frames, n_stations,
                   station_keys, station_traces, station_max, times, outcome,
                   exit_code, prepare_invoked, animation_invoked, out_written>>
    /\ UNCHANGED <<scaleVars, gridVars, frameVars, batchVars>>

\* variant: the coordinate table is tried before the inventory
MergeMetadataCsvFirst(pos, a, stream) ==
    IF a.csv.given THEN DictUpdate(pos, load_station_csv(a.csv.rows))
    ELSE IF a.xml.given THEN DictUpdate(pos, inventory_to_positions(a.xml.stations))
    ELSE MergeSacHeaders(pos, stream)

\* lines 332-346: the positions after the metadata step
MergeMetadata(pos, a, stream) ==
    IF a.xml.given THEN DictUpdate(pos, inventory_to_positions(a.xml.stations))
    ELSE IF a.csv.given THEN DictUpdate(pos, load_station_csv(a.csv.rows))
    ELSE MergeSacHeaders(pos, stream)

MergePositions ==
    /\ pc = "merge"
    /\ positions' = MergeMetadata(positions, args, st)
    /\ pc' = "check_pos"
    /\ UNCHANGED <<HAS_SEGYIO, args, files, idx, st, start, end, n_frames,
                   n_stations, station_keys, station_traces, station_max, times,
                   outcome, exit_code, prepare_invoked, animation_invoked,
                   out_written>>
    /\ UNCHANGED <<scaleVars, gridVars, frameVars, batchVars>>

\* variant: a non-empty mapping goes straight on to prepare_meta
CheckPositionsSkipBudget ==
    /\ pc = "check_pos"
    /\ IF DOMAIN positions = {}
       THEN Exit(1, "Failed")
       ELSE pc' = "prepare" /\ UNCHANGED <<exit_code, outcome>>
    /\ UNCHANGED <<HAS_SEGYIO, args, files, idx, st, positions, start, end,
                   n_frames, n_stations, station_keys, station_traces,
                   station_max, times, prepare_invoked, animation_invoked,
                   out_written>>
    /\ UNCHANGED <<scaleVars, gridVars, frameVars, batchVars>>

\* lines 349-351
CheckPositions ==
    /\ pc = "check_pos"
    /\ IF DOMAIN positions = {}
       THEN Exit(1, "Failed")
       ELSE pc' = "window" /\ UNCHANGED <<exit_code, outcome>>
    /\ UNCHANGED <<HAS_SEGYIO, args, files, idx, st, positions, start, end,
                   n_frames, n_stations, station_keys, station_traces,
                   station_max, times, prepare_invoked, animation_invoked,
                   out_written>>
    /\ UNCHANGED <<scaleVars, gridVars, frameVars, batchVars>>

RECURSIVE MinStart(_)
MinStart(stream) ==
    IF Len(stream) = 1 THEN stream[1].starttime
    ELSE LET m == MinStart(Tail(stream))
         IN  IF stream[1].starttime < m THEN stream[1].starttime ELSE m

RECURSIVE MaxEnd(_)
MaxEnd(stream) ==
    IF Len(stream) = 1 THEN EndTime(stream[1])
    ELSE Max2(EndTime(stream[1]), MaxEnd(Tail(stream)))

\* lines 354-361; min() / max() of an empty list raise ValueError
ResolveWindow ==
    /\ pc = "window"
    /\ IF (args.start = << >> \/ args.end = << >>) /\ st = << >>
       THEN /\ Exit(1, "Failed")
            /\ UNCHANGED <<start, end>>
       ELSE /\ start' = IF args.start # << >> THEN args.start[1] ELSE MinStart(st)
            /\ end' = IF args.end # << >> THEN args.end[1] ELSE MaxEnd(st)
            /\ pc' = "budget"
            /\ UNCHANGED <<exit_code, outcome>>
    /\ UNCHANGED <<HAS_SEGYIO, args, files, idx, st, positions, n_frames,
                   n_stations, station_keys, station_traces, station_max, times,
                   prepare_invoked, animation_invoked, out_written>>
    /\ UNCHANGED <<scaleVars, gridVars, frameVars, batchVars>>

\* variant: the quotient is rounded down
FrameCountFloor(duration, time_step) ==
    IF duration > 0 THEN duration \div time_step ELSE 0

\* line 365
FrameCount(duration, time_step) ==
    IF duration > 0 THEN CeilDiv(duration, time_step) ELSE 0

\* line 366
StationCount(pos) == Max2(1, Cardinality(DOMAIN pos))

\* line 368
EstBytes(frames, stations) == frames * stations * 4

\* variant: a run of exactly --max-frames frames is refused as well
TooManyFramesOrEqual(frames, max_frames) == frames >= max_frames

\* line 376
TooManyFrames(frames, max_frames) == frames > max_frames

\* line 381: est_bytes / 1024**2 * 1.5 > max_mem_mb, i.e.
\* 3 * est_bytes > max_mem_mb * 2**21, evaluated without leaving 32 bits
TooMuchMemory(est_bytes, max_mem_mb) ==
    LET q == (3 * est_bytes) \div 2097152
        r == (3 * est_bytes) % 2097152
    IN  q > max_mem_mb \/ (q = max_mem_mb /\ r > 0)

\* lines 363-370: the estimate; a zero --time-step with a positive duration
\* raises ZeroDivisionError at line 365
EstimateBudget ==
    /\ pc = "budget"
    /\ IF end - start > 0 /\ args.time_step = 0
       THEN /\ Exit(1, "Failed")
            /\ UNCHANGED <<n_frames, n_stations>>
       ELSE /\ n_frames' = FrameCount(end - start, args.time_step)
            /\ n_stations' = StationCount(positions)
            /\ pc' = "guard"
            /\ UNCHANGED <<exit_code, outcome>>
    /\ UNCHANGED <<HAS_SEGYIO, args, files, idx, st, positions, start, end,
                   station_keys, station_traces, station_max, times,
                   prepare_invoked, animation_invoked, out_written>>
    /\ UNCHANGED <<scaleVars, gridVars, frameVars, batchVars>>

\* lines 372-386: the three ceilings
BudgetGuard ==
    /\ pc = "guard"
    /\ IF \/ n_frames <= 0
          \/ TooManyFrames(n_frames, args.max_frames)
          \/ TooMuchMemory(EstBytes(n_frames, n_stations), args.max_mem_mb)
       THEN Exit(1, "Rejected")
       ELSE pc' = "dry_run" /\ UNCHANGED <<exit_code, outcome>>
    /\ UNCHANGED <<HAS_SEGYIO, args, files, idx, st, positions, start, end,
                   n_frames, n_stations, station_keys, station_traces,
                   station_max, times, prepare_invoked, animation_invoked,
                   out_written>>
    /\ UNCHANGED <<scaleVars, gridVars, frameVars, batchVars>>

\* variant: the flag is not looked at
DryRunIgnored(a) == FALSE

\* line 388
DryRunRequested(a) == a.dry_run

\* lines 388-391
DryRun ==
    /\ pc = "dry_run"
    /\ IF DryRunRequested(args)
       THEN Exit(0, "DryRun")
       ELSE pc' = "prepare" /\ UNCHANGED <<exit_code, outcome>>
    /\ UNCHANGED <<HAS_SEGYIO, args, files, idx, st, positions, start, end,
                   n_frames, n_stations, station_keys, station_traces,
                   station_max, times, prepare_invoked, animation_invoked,
                   out_written>>
    /\ UNCHANGED <<scaleVars, gridVars, frameVars, batchVars>>

\* lines 393-397: prepare_meta returns, or MemoryError is reported
Prepare ==
    /\ pc = "prepare"
    /\ prepare_invoked' = TRUE
    /\ \/ LET m == prepare_meta(st, positions, start, end, args.time_step)
          IN  /\ station_keys' = m.station_keys
              /\ station_traces' = m.station_traces
              /\ station_max' = m.station_max
              /\ times' = m.times
              /\ pc' = "check_keys"
              /\ UNCHANGED <<exit_code, outcome>>
       \/ /\ Exit(1, "Failed")
          /\ UNCHANGED <<station_keys, station_traces, station_max, times>>
    /\ UNCHANGED <<HAS_SEGYIO, args, files, idx, st, positions, start, end,
                   n_frames, n_stations, animation_invoked, out_written>>
    /\ UNCHANGED <<scaleVars, gridVars, frameVars, batchVars>>

\* variant: an empty station set ends the run with exit code 0
CheckStationKeysExitZero ==
    /\ pc = "check_keys"
    /\ IF station_keys = << >>
       THEN Exit(0, "Failed") /\ UNCHANGED n_frames
       ELSE /\ n_frames' = Len(times)
            /\ pc' = "animate"
            /\ UNCHANGED <<exit_code, outcome>>
    /\ UNCHANGED <<HAS_SEGYIO, args, files, idx, st, positions, start, end,
                   n_stations, station_keys, station_traces, station_max, times,
                   prepare_invoked, animation_invoked, out_written>>
    /\ UNCHANGED <<scaleVars, gridVars, frameVars, batchVars>>

\* lines 399-403
CheckStationKeys ==
    /\ pc = "check_keys"
    /\ IF station_keys = << >>
       THEN Exit(1, "Failed") /\ UNCHANGED n_frames
       ELSE /\ n_frames' = Len(times)
            /\ pc' = "animate"
            /\ UNCHANGED <<exit_code, outcome>>
    /\ UNCHANGED <<HAS_SEGYIO, args, files, idx, st, positions, start, end,
                   n_stations, station_keys, station_traces, station_max, times,
                   prepare_invoked, animation_invoked, out_written>>
    /\ UNCHANGED <<scaleVars, gridVars, frameVars, batchVars>>

\* lines 405-413, make_animation as one step (FrameSpec below takes it frame
\* by frame): make_animation saves the movie, or raises (no Basemap, no
\* ffmpeg writer, MemoryError, ...) possibly after the writer opened the file
MakeAnimation ==
    /\ pc = "animate"
    /\ animation_invoked' = TRUE
    /\ \/ /\ out_written' = TRUE
          /\ Exit(0, "Rendered")
       \/ /\ out_written' \in BOOLEAN
          /\ Exit(1, "Failed")
    /\ UNCHANGED <<HAS_SEGYIO, args, files, idx, st, positions, start, end,
                   n_frames, n_stations, station_keys, station_traces,
                   station_max, times, prepare_invoked>>
    /\ UNCHANGED <<scaleVars, gridVars, frameVars, batchVars>>

\* the phase of the run a position of main() belongs to
Phase ==
    CASE pc = "start" -> "Idle"
      [] pc \in {"read", "merge", "check_pos"} -> "FilesDiscovered"
      [] pc \in {"window", "budget"} -> "PositionsResolved"
      [] pc \in {"guard", "dry_run", "prepare", "check_keys"} -> "BudgetChecked"
      [] pc = "animate" -> "FramesPrepared"
      [] pc = "exit" -> outcome

Next ==
    \/ FindWaveforms
    \/ ReadFile
    \/ MergePositions
    \/ CheckPositions
    \/ ResolveWindow
    \/ EstimateBudget
    \/ BudgetGuard
    \/ DryRun
    \/ Prepare
    \/ CheckStationKeys
    \/ MakeAnimation

Spec == Init /\ [][Next]_vars

\* every step of main() is eventually taken: the program is sequential and
\* each step terminates
FairSpec == Spec /\ WF_vars(Next)

(* ------------------------------------------------------------------ *)
(* The scale resolver on its own: segy_to_stream lines 141-155          *)
(* ------------------------------------------------------------------ *)
\* <<GroupX, GroupY>> header pairs (in thousands) the arrays are drawn from:
\* first in range at 1e-3, 1e-4, 1e-5, 1e-6 (latitude only at 1e-6), never
HdrPairs == <<
    <<45, 30>>, <<200, 30>>, <<4500, 3000>>, <<1000, 9500>>, <<0, 1000000000>> >>

DefaultArgs ==
    [xml |-> NoXml, csv |-> NoCsv, start |-> << >>, end |-> << >>, time_step |-> 1,
     max_frames |-> 10000, max_mem_mb |-> 4096, dry_run |-> FALSE]

ScaleInit ==
    /\ HAS_SEGYIO = TRUE /\ args = DefaultArgs
    /\ MainIdle /\ ScaleIdle /\ GridIdle /\ FrameIdle /\ BatchIdle

\* index in HdrPairs of the last pair read, 1 when none was read
LastPairIndex ==
    IF gx_vals = << >> THEN 1
    ELSE CHOOSE i \in 1..Len(HdrPairs) :
            HdrPairs[i] = <<gx_vals[Len(gx_vals)], gy_vals[Len(gy_vals)]>>

\* lines 145-149: one more trace header; the arrays are read in the order of
\* HdrPairs (the score of a candidate does not depend on the order)
ReadHeader ==
    /\ picked = << >>
    /\ Len(gx_vals) < MaxHdr
    /\ \E i \in LastPairIndex..Len(HdrPairs) :
          /\ gx_vals' = Append(gx_vals, HdrPairs[i][1])
          /\ gy_vals' = Append(gy_vals, HdrPairs[i][2])
    /\ UNCHANGED <<picked, mainVars, gridVars, frameVars, batchVars>>

\* lines 152-155
PickScale ==
    /\ picked = << >>
    /\ picked' = <<ResolveScale(gx_vals, gy_vals)>>
    /\ UNCHANGED <<gx_vals, gy_vals, mainVars, gridVars, frameVars, batchVars>>

ScaleNext == ReadHeader \/ PickScale

ScaleSpec == ScaleInit /\ [][ScaleNext]_vars

(* ------------------------------------------------------------------ *)
(* The time grid on its own: prepare_meta lines 213-215                 *)
(* ------------------------------------------------------------------ *)
\* 2000-01-01T00:00:00 and ten minutes later, as POSIX timestamps
GridInputs ==
    {<<s, e, d>> : s \in 0..3, e \in 0..MaxGridEnd, d \in 1..4}
    \cup {<<946684800, 946685400, 1>>, <<946684800, 946685400, 7>>}

GridInit ==
    /\ HAS_SEGYIO = TRUE /\ args = DefaultArgs
    /\ MainIdle /\ ScaleIdle /\ FrameIdle /\ BatchIdle
    /\ grid_args \in GridInputs /\ grid = << >>

\* prepare_meta on an empty stream: only the times array is of interest
MakeGrid ==
    /\ grid = << >>
    /\ grid' = <<prepare_meta(<< >>, EmptyDict, grid_args[1], grid_args[2],
                              grid_args[3]).times>>
    /\ UNCHANGED <<grid_args, mainVars, scaleVars, frameVars, batchVars>>

GridNext == MakeGrid

GridSpec == GridInit /\ [][GridNext]_vars

(* ------------------------------------------------------------------ *)
(* prepare_meta and make_animation frame by frame: main lines 393-413   *)
(* ------------------------------------------------------------------ *)
\* the traces a stream is drawn from: one sample per second unless said;
\* XX.GHI has a sample every 2 s (at 1, 3, 5), the second XX.DEF trace a
\* sample every 3 s (at 0, 3, 6)
FrameTraces == <<
    Tr("XX", "ABC", 0, <<3, -5, 2, 0, 1>>, << >>),
    Tr("XX", "DEF", 0, <<0, 0, 0, 0, 0>>, << >>),
    TrRate("XX", "GHI", 1, 2, <<4, 6, -10>>, << >>),
    Tr("XX", "ABC", 2, <<7, 1>>, << >>),
    Tr("XX", "ABC", 10, <<9>>, << >>),
    TrRate("XX", "DEF", 0, 3, <<5, 0, -3>>, << >>),
    Tr("", "JKL", 0, <<2, 2, 2, 2, 2>>, << >>),
    Tr("XX", "NOP", 0, <<1, 1, 1>>, << >>) >>

\* the coordinate table of the runs: three network,station,lat,lon rows and
\* one station,lat,lon row
FrameCsv == [given |-> TRUE, rows |->
    <<<<"XX", "ABC", 45100000, -123400000>>,
      <<"XX", "DEF", 45200000, -123500000>>,
      <<"XX", "GHI", 45300000, -123600000>>,
      <<"JKL", 45400000, -123700000>>>>]

\* the streams: up to MaxTraces different traces in any order
FrameStreams ==
    LET picks == UNION {[1..n -> 1..Len(FrameTraces)] : n \in 0..MaxTraces}
    IN  {[j \in 1..Len(p) |-> FrameTraces[p[j]]] :
            p \in {q \in picks : \A a, b \in 1..Len(q) : a # b => q[a] # q[b]}}

FrameWindows == {<<0, 4>>, <<1, 4>>, <<1, 2>>, <<0, 7>>}

\* main() at line 393: one readable file gave the stream, --csv the
\* positions, --start / --end the window, and the budget guard passed
FrameInit ==
    /\ HAS_SEGYIO = TRUE
    /\ \E stream \in FrameStreams, w \in FrameWindows, ts \in {1, 2} :
          /\ args = [DefaultArgs EXCEPT !.csv = FrameCsv, !.start = <<w[1]>>,
                                        !.end = <<w[2]>>, !.time_step = ts]
          /\ files = <<[name |-> "day.mseed", ext |-> "mseed", segy |-> NoSegy,
                        read |-> [ok |-> TRUE, traces |-> stream]]>>
          /\ idx = 2
          /\ st = stream
          /\ positions = load_station_csv(FrameCsv.rows)
          /\ start = w[1] /\ end = w[2]
          /\ n_frames = FrameCount(w[2] - w[1], ts)
          /\ n_stations = StationCount(load_station_csv(FrameCsv.rows))
    /\ pc = "prepare"
    /\ station_keys = << >> /\ station_traces = EmptyDict /\ station_max = EmptyDict
    /\ times = << >> /\ outcome = "" /\ exit_code = << >>
    /\ prepare_invoked = FALSE /\ animation_invoked = FALSE /\ out_written = FALSE
    /\ ScaleIdle /\ GridIdle /\ FrameIdle /\ BatchIdle

\* the exception make_animation ends with; main reports it and exits with 1
Raise(name) == raised' = name /\ Exit(1, "Failed")

\* make_animation lines 221-267: the plotted coordinates, the map (Basemap
\* may be missing), the reference station and its time series
SetupAnimation ==
    /\ pc = "animate"
    /\ animation_invoked' = TRUE
    /\ LET ref_key == station_keys[1]
           ref_max == GetMax(station_max, ref_key)
       IN  \/ /\ times # << >> /\ ref_max # 0
              /\ lats' = [j \in 1..Len(station_keys) |-> positions[station_keys[j]][1]]
              /\ lons' = [j \in 1..Len(station_keys) |-> positions[station_keys[j]][2]]
              /\ ref_amps' = [j \in 1..Len(times) |->
                     Quot(sample_tr_at_time(station_traces[ref_key], times[j]), ref_max)]
              /\ pc' = "frames"
              /\ UNCHANGED <<raised, exit_code, outcome>>
           \/ /\ Raise(IF ref_max = 0 THEN "ZeroDivisionError"
                        ELSE IF times = << >> THEN "IndexError" ELSE "RuntimeError")
              /\ UNCHANGED <<lats, lons, ref_amps>>
    /\ UNCHANGED <<HAS_SEGYIO, args, files, idx, st, positions, start, end,
                   n_frames, n_stations, station_keys, station_traces,
                   station_max, times, prepare_invoked, out_written>>
    /\ UNCHANGED <<frame_i, vals, scaleVars, gridVars, batchVars>>

\* variant: update(i) rescales the peaks to the values of the frame
UpdateRescaling ==
    /\ pc = "frames"
    /\ \E i \in 0..(Len(times) - 1) :
          /\ frame_i' = <<i>>
          /\ vals' = FrameVector(station_keys, station_traces, station_max, times[i + 1])
          /\ station_max' = [k \in DOMAIN station_max |->
                                Max2(1, Abs(sample_tr_at_time(station_traces[k], times[i + 1])))]
    /\ UNCHANGED <<HAS_SEGYIO, args, pc, files, idx, st, positions, start, end,
                   n_frames, n_stations, station_keys, station_traces,
                   times, outcome, exit_code, prepare_invoked,
                   animation_invoked, out_written>>
    /\ UNCHANGED <<lats, lons, ref_amps, raised, scaleVars, gridVars, batchVars>>

\* lines 269-279: update(i), called by the writer for the frames 0..len(times)-1
\* and by the first draw; a zero peak makes the division raise
Update ==
    /\ pc = "frames"
    /\ \E i \in 0..(Len(times) - 1) :
          IF \E j \in 1..Len(station_keys) : GetMax(station_max, station_keys[j]) = 0
          THEN /\ Raise("ZeroDivisionError")
               /\ UNCHANGED <<frame_i, vals>>
          ELSE /\ frame_i' = <<i>>
               /\ vals' = FrameVector(station_keys, station_traces, station_max,
                                       times[i + 1])
               /\ UNCHANGED <<raised, pc, exit_code, outcome>>
    /\ UNCHANGED <<HAS_SEGYIO, args, files, idx, st, positions, start, end,
                   n_frames, n_stations, station_keys, station_traces,
                   station_max, times, prepare_invoked,
                   animation_invoked, out_written>>
    /\ UNCHANGED <<lats, lons, ref_amps, scaleVars, gridVars, batchVars>>

\* lines 281-286: ani.save ends, or the writer fails (no ffmpeg, disk full)
\* possibly after it opened the output file
SaveAnimation ==
    /\ pc = "frames"
    /\ \/ /\ out_written' = TRUE
          /\ Exit(0, "Rendered")
          /\ UNCHANGED raised
       \/ /\ out_written' \in BOOLEAN
          /\ Raise("RuntimeError")
    /\ UNCHANGED <<HAS_SEGYIO, args, files, idx, st, positions, start, end,
                   n_frames, n_stations, station_keys, station_traces,
                   station_max, times, prepare_invoked, animation_invoked>>
    /\ UNCHANGED <<lats, lons, ref_amps, frame_i, vals, scaleVars, gridVars, batchVars>>

FrameNext ==
    \/ Prepare
    \/ CheckStationKeys
    \/ SetupAnimation
    \/ Update
    \/ SaveAnimation

FrameSpec == FrameInit /\ [][FrameNext]_vars

(* ------------------------------------------------------------------ *)
(* The batch scripts: main() of gmv_batch_m8_catalog.py and of          *)
(* gmv_batch_ok_local.py (the two loops are the same statement for      *)
(* statement)                                                           *)
(* ------------------------------------------------------------------ *)
\* the entries the catalogue service may answer with: event time in
\* milliseconds, magnitude and latitude, each possibly null (<< >>)
FeatureKinds == {
    [time |-> <<1>>, magnitude |-> <<8>>, latitude |-> <<35>>],
    [time |-> <<2>>, magnitude |-> <<8>>, latitude |-> <<35>>],
    [time |-> << >>, magnitude |-> <<8>>, latitude |-> <<35>>],
    [time |-> <<2>>, magnitude |-> << >>, latitude |-> <<35>>],
    [time |-> <<1>>, magnitude |-> <<8>>, latitude |-> << >>]}

\* the answers of the service: up to MaxQuakes entries in any order
FeatureLists == UNION {[1..n -> FeatureKinds] : n \in 0..MaxQuakes}

\* m8 lines 94-103: eq_info of entry i; usgs_id tells the entries apart
EqInfo(feats, i) ==
    [usgs_id |-> i, time |-> feats[i].time, magnitude |-> feats[i].magnitude,
     latitude |-> feats[i].latitude]

\* m8 lines 105-106: entries without magnitude or latitude are left out
Usable(eq) == eq.magnitude # << >> /\ eq.latitude # << >>

\* list.sort compares the keys of a list of two or more entries; comparing
\* None raises TypeError
SortRaises(eqs) == Len(eqs) >= 2 /\ \E i \in 1..Len(eqs) : eqs[i].time = << >>

\* e put behind the entries of the sorted list that are not later than e
RECURSIVE InsertByTime(_, _)
InsertByTime(sorted, e) ==
    IF sorted = << >> THEN <<e>>
    ELSE IF sorted[1].time[1] <= e.time[1]
         THEN <<sorted[1]>> \o InsertByTime(Tail(sorted), e)
         ELSE <<e>> \o sorted

\* m8 line 109: earthquakes.sort(key=lambda x: x['time']), a stable sort
RECURSIVE SortByTime(_)
SortByTime(eqs) ==
    IF Len(eqs) <= 1 THEN eqs
    ELSE InsertByTime(SortByTime(SubSeq(eqs, 1, Len(eqs) - 1)), eqs[Len(eqs)])

\* variant: the list is returned in the order of the answer
get_usgs_earthquakes_unsorted(feats) ==
    LET eqs == SelectSeq([i \in 1..Len(feats) |-> EqInfo(feats, i)], Usable)
    IN  IF SortRaises(eqs) THEN << >> ELSE eqs

\* m8 lines 78-121 (ok_local lines 91-134): the usable entries sorted by
\* time; an exception of the sort is caught and gives the empty list
get_usgs_earthquakes(feats) ==
    LET eqs == SelectSeq([i \in 1..Len(feats) |-> EqInfo(feats, i)], Usable)
    IN  IF SortRaises(eqs) THEN << >> ELSE SortByTime(eqs)

\* main() is entered; the service will answer with some list of entries
BatchInit ==
    /\ HAS_SEGYIO = TRUE /\ args = DefaultArgs
    /\ MainIdle /\ ScaleIdle /\ GridIdle /\ FrameIdle
    /\ features \in FeatureLists
    /\ earthquakes = << >>
    /\ report_only \in BOOLEAN
    /\ b_pc = "start" /\ eq_idx = 0
    /\ successful = 0 /\ failed = 0 /\ launched = << >> /\ interrupted_at = << >>

BatchUnchanged == UNCHANGED <<mainVars, scaleVars, gridVars, frameVars>>

\* m8 lines 237-264: the GMV script must exist; the catalogue is queried (the
\* request may fail, which gives the empty list) and must not be empty
BatchStart ==
    /\ b_pc = "start"
    /\ \/ b_pc' = "exit" /\ UNCHANGED earthquakes
       \/ /\ earthquakes' \in {get_usgs_earthquakes(features), << >>}
          /\ b_pc' = IF earthquakes' = << >> THEN "exit" ELSE "loop"
    /\ UNCHANGED <<features, report_only, eq_idx, successful, failed, launched,
                   interrupted_at>>
    /\ BatchUnchanged

\* m8 line 267: the for statement takes the next event or ends the loop
NextEarthquake ==
    /\ b_pc = "loop"
    /\ IF eq_idx < Len(earthquakes)
       THEN eq_idx' = eq_idx + 1 /\ b_pc' = "try"
       ELSE eq_idx' = eq_idx /\ b_pc' = "summary"
    /\ UNCHANGED <<features, earthquakes, report_only, successful, failed, launched,
                   interrupted_at>>
    /\ BatchUnchanged

\* m8 lines 268-285 and 289-291: the body of the try statement runs to its
\* end, or an Exception is counted as a failure (format_time raises TypeError
\* for a time of None); run_gmv_script turns its own exceptions into False
ProcessEarthquake ==
    /\ b_pc = "try"
    /\ \/ /\ earthquakes[eq_idx].time # << >>
          /\ report_only
          /\ successful' = successful + 1
          /\ UNCHANGED <<failed, launched>>
       \/ /\ earthquakes[eq_idx].time # << >>
          /\ ~report_only
          /\ launched' = Append(launched, earthquakes[eq_idx])
          /\ \/ successful' = successful + 1 /\ UNCHANGED failed
             \/ failed' = failed + 1 /\ UNCHANGED successful
       \/ /\ failed' = failed + 1
          /\ UNCHANGED <<successful, launched>>
    /\ b_pc' = "after"
    /\ UNCHANGED <<features, earthquakes, report_only, eq_idx, interrupted_at>>
    /\ BatchUnchanged

\* variant: the interrupt is counted as a failure and the loop goes on
InterruptInTryCounted ==
    /\ b_pc = "try"
    /\ interrupted_at' = <<eq_idx>>
    /\ failed' = failed + 1
    /\ b_pc' = "after"
    /\ UNCHANGED <<features, earthquakes, report_only, eq_idx, successful, launched>>
    /\ BatchUnchanged

\* m8 lines 286-288: KeyboardInterrupt inside the try statement (it passes
\* the except Exception of run_gmv_script) breaks the loop; the subprocess may
\* have been started
InterruptInTry ==
    /\ b_pc = "try"
    /\ interrupted_at' = <<eq_idx>>
    /\ \/ UNCHANGED launched
       \/ /\ ~report_only /\ earthquakes[eq_idx].time # << >>
          /\ launched' = Append(launched, earthquakes[eq_idx])
    /\ b_pc' = "summary"
    /\ UNCHANGED <<features, earthquakes, report_only, eq_idx, successful, failed>>
    /\ BatchUnchanged

\* m8 lines 294-296: the wait is taken between two events outside report mode
AfterTry ==
    /\ b_pc = "after"
    /\ b_pc' = IF ~report_only /\ eq_idx < Len(earthquakes) THEN "sleep" ELSE "loop"
    /\ UNCHANGED <<features, earthquakes, report_only, eq_idx, successful, failed, launched,
                   interrupted_at>>
    /\ BatchUnchanged

\* m8 line 296: time.sleep(5) returns
Sleep ==
    /\ b_pc = "sleep"
    /\ b_pc' = "loop"
    /\ UNCHANGED <<features, earthquakes, report_only, eq_idx, successful, failed, launched,
                   interrupted_at>>
    /\ BatchUnchanged

\* KeyboardInterrupt outside the try statement (the for statement, lines
\* 294-296 and the wait): no handler, the interpreter ends the process
InterruptOutsideTry ==
    /\ b_pc \in {"loop", "after", "sleep"}
    /\ interrupted_at = << >>
    /\ interrupted_at' = <<eq_idx>>
    /\ b_pc' = "killed"
    /\ UNCHANGED <<features, earthquakes, report_only, eq_idx, successful, failed, launched>>
    /\ BatchUnchanged

\* m8 lines 298-305: the summary is printed and main returns
Summary ==
    /\ b_pc = "summary"
    /\ b_pc' = "exit"
    /\ UNCHANGED <<features, earthquakes, report_only, eq_idx, successful, failed, launched,
                   interrupted_at>>
    /\ BatchUnchanged

BatchNext ==
    \/ BatchStart
    \/ NextEarthquake
    \/ ProcessEarthquake
    \/ InterruptInTry
    \/ AfterTry
    \/ Sleep
    \/ InterruptOutsideTry
    \/ Summary

BatchSpec == BatchInit /\ [][BatchNext]_vars

(* ------------------------------------------------------------------ *)
(* Properties of the scale resolver (ScaleSpec)                         *)
(* ------------------------------------------------------------------ *)
\* header pair i is a valid (lat, lon) when scaled by 1e-k
ValidAt(i, k) ==
    /\ Abs(gx_vals[i]) < 180 * Pow10(k - 3)
    /\ Abs(gy_vals[i]) < 90 * Pow10(k - 3)

NumValid(k) == Cardinality({i \in 1..Len(gx_vals) : ValidAt(i, k)})

\* the in-range fraction of candidate k is >= 0.95
ReachesThreshold(k) == 100 * NumValid(k) >= 95 * Len(gx_vals)

ScaleResolved == picked # << >> /\ Len(gx_vals) > 0

\* the first scanned candidate with property P, as a one-element tuple
FirstCandidate(P(_)) ==
    LET I == {i \in 1..Len(Candidates) : P(Candidates[i])}
    IN  IF I = {} THEN << >>
        ELSE <<Candidates[CHOOSE i \in I : \A j \in I : i <= j]>>

\* candidate k attains the largest in-range fraction of all candidates
AttainsMax(k) == \A c \in 1..Len(Candidates) : NumValid(k) >= NumValid(Candidates[c])

\* C3 as claimed: the resolved scale is the first scanned candidate whose
\* in-range fraction is >= 0.95, and 1e-6 when no candidate reaches 0.95.
C3_FirstAboveThreshold ==
    ScaleResolved =>
        /\ picked[1].kind = "ok"
        /\ picked[1].val = (IF FirstCandidate(ReachesThreshold) = << >>
                             THEN <<6>> ELSE FirstCandidate(ReachesThreshold))

\* C3 amended: for a non-empty header list the resolved scale is the first
\* scanned candidate that attains the largest in-range fraction, provided
\* that fraction is >= 0.95, and 1e-6 otherwise; no error is raised.
C3_FirstBestScore ==
    ScaleResolved =>
        /\ picked[1].kind = "ok"
        /\ picked[1].val =
              (IF \E c \in 1..Len(Candidates) : ReachesThreshold(Candidates[c])
               THEN FirstCandidate(AttainsMax) ELSE <<6>>)

\* 1e-3 reaches 0.95 and yet 1e-4, with the larger fraction, is selected
C3_Witness ==
    /\ ScaleResolved
    /\ ReachesThreshold(3)
    /\ picked[1].val = <<4>>

AllValidAt(k) == \A i \in 1..Len(gx_vals) : ValidAt(i, k)

NoneValidAt(k) == \A i \in 1..Len(gx_vals) : ~ValidAt(i, k)

\* C4 as claimed: header pairs that are all valid at 1e-6 and invalid at
\* 1e-3 and at 1e-4 resolve to the scale 1e-6.
C4_MicroDegrees ==
    (ScaleResolved /\ AllValidAt(6) /\ NoneValidAt(3) /\ NoneValidAt(4))
        => picked[1] = [kind |-> "ok", val |-> <<6>>]

\* C4 amended: a non-empty list of header pairs that are all valid at 1e-6,
\* invalid at 1e-3 and 1e-4 and not all valid at 1e-5 resolves to 1e-6.
C4_MicroDegreesNotTenMicro ==
    (ScaleResolved /\ AllValidAt(6) /\ NoneValidAt(3) /\ NoneValidAt(4)
        /\ ~AllValidAt(5))
        => picked[1] = [kind |-> "ok", val |-> <<6>>]

C4_Witness ==
    /\ ScaleResolved /\ AllValidAt(6) /\ NoneValidAt(3) /\ NoneValidAt(4)
    /\ ~AllValidAt(5)
    /\ Len(gx_vals) >= 2
    /\ picked[1].val = <<6>>

(* ------------------------------------------------------------------ *)
(* Properties of position resolution (Spec)                             *)
(* ------------------------------------------------------------------ *)
\* what each source says about station key k: << >> or <<position>>
XmlSays(k) ==
    LET I == {i \in 1..Len(args.xml.stations) :
                args.xml.stations[i].net \o "." \o args.xml.stations[i].sta = k}
    IN  IF ~args.xml.given \/ I = {} THEN << >>
        ELSE LET i == CHOOSE i \in I : \A j \in I : j <= i
             IN  <<<<args.xml.stations[i].lat, args.xml.stations[i].lon>>>>

CsvRowKey(parts) ==
    IF Len(parts) = 4 THEN <<parts[1] \o "." \o parts[2]>>
    ELSE IF Len(parts) = 3 THEN <<parts[1]>> ELSE << >>

CsvSays(k) ==
    LET I == {i \in 1..Len(args.csv.rows) : CsvRowKey(args.csv.rows[i]) = <<k>>}
    IN  IF ~args.csv.given \/ I = {} THEN << >>
        ELSE LET i == CHOOSE i \in I : \A j \in I : j <= i
                 parts == args.csv.rows[i]
             IN  <<<<parts[Len(parts) - 1], parts[Len(parts)]>>>>

SacSays(k) ==
    LET I == {i \in 1..Len(st) : st[i].sac # << >> /\ stream_station_key(st[i]) = k}
    IN  IF I = {} THEN << >>
        ELSE <<st[CHOOSE i \in I : \A j \in I : i <= j].sac>>

\* the geometry file f contributes: its SEG-Y conversion, when it is taken
SegyGeometry(f) ==
    IF f.ext \in {"sgy", "segy"} /\ HAS_SEGYIO
    THEN LET r == segy_to_stream(f)
         IN  IF r.kind = "ok" THEN r.positions ELSE EmptyDict
    ELSE EmptyDict

\* the keys the SEG-Y conversion of f names (they do not depend on the scale)
SegyKeys(f) ==
    IF f.ext \in {"sgy", "segy"} /\ HAS_SEGYIO /\ f.segy.ok
    THEN {stream_station_key(SegyTrace(f.segy.hdrs[i], i)) : i \in 1..Len(f.segy.hdrs)}
    ELSE {}

SegySays(k) ==
    LET I == {i \in 1..Len(files) :
                k \in SegyKeys(files[i]) /\ k \in DOMAIN SegyGeometry(files[i])}
    IN  IF I = {} THEN << >>
        ELSE <<SegyGeometry(files[CHOOSE i \in I : \A j \in I : j <= i])[k]>>

KnownKeys ==
    {"XX.ABC", "XX.DEF", "ABC", "ZZ.NOPE", ".1", "SGY.SGY.00001", "SGY.SGY.00002"}

\* the first of the given answers that is present
FirstSaid(answers) ==
    LET I == {i \in 1..Len(answers) : answers[i] # << >>}
    IN  answers[CHOOSE i \in I : \A j \in I : i <= j][1]

NumSaid(answers) == Cardinality({i \in 1..Len(answers) : answers[i] # << >>})

\* the loop over the files and the metadata step have run
MergeDone == files # << >> /\ pc \notin {"start", "read", "merge"}

\* the sources main() consults: the inventory when given, the table when
\* given and no inventory is, SAC headers when neither is, SEG-Y always
XmlConsulted(k) == XmlSays(k)

CsvConsulted(k) == IF args.xml.given THEN << >> ELSE CsvSays(k)

SacConsulted(k) == IF args.xml.given \/ args.csv.given THEN << >> ELSE SacSays(k)

\* C1 as claimed: a key provided by more than one source ends with the
\* position of the highest source in the order StationXML > CSV > SAC
\* header > SEG-Y geometry (read in the claim's favour: only the sources
\* the run consults count as providing).
C1_PrecedenceAsClaimed ==
    MergeDone =>
        \A k \in KnownKeys :
            LET a == <<XmlConsulted(k), CsvConsulted(k), SacConsulted(k), SegySays(k)>>
            IN  NumSaid(a) > 1 => (k \in DOMAIN positions /\ positions[k] = FirstSaid(a))

\* C1 amended: a key provided by more than one consulted source ends with
\* the position of the highest one in the order StationXML > CSV > SEG-Y
\* geometry > SAC header.
C1_PrecedenceOfCode ==
    MergeDone =>
        \A k \in KnownKeys :
            LET a == <<XmlConsulted(k), CsvConsulted(k), SegySays(k), SacConsulted(k)>>
            IN  NumSaid(a) > 1 => (k \in DOMAIN positions /\ positions[k] = FirstSaid(a))

\* the inventory and SEG-Y geometry both give SGY.SGY.00001, the inventory wins
C1_Witness ==
    /\ pc = "check_pos"
    /\ XmlSays("SGY.SGY.00001") # << >>
    /\ SegySays("SGY.SGY.00001") # << >>
    /\ SegySays("SGY.SGY.00001") # XmlSays("SGY.SGY.00001")
    /\ positions["SGY.SGY.00001"] = XmlSays("SGY.SGY.00001")[1]

\* C2 as claimed: a step never changes the position a key already has.
C2_NeverOverwritten ==
    [][\A k \in DOMAIN positions :
          k \in DOMAIN positions' /\ positions'[k] = positions[k]]_vars

\* C2 amended: a key that has a position keeps a position; the SAC-header
\* step never changes it; it changes only when a later SEG-Y file, the
\* inventory or the coordinate table provides the key, and then to the
\* position that source gives.
C2_OverwrittenOnlyBySegyXmlCsv ==
    [][\A k \in DOMAIN positions :
          /\ k \in DOMAIN positions'
          /\ positions'[k] # positions[k] =>
                \/ /\ pc = "read"
                   /\ k \in DOMAIN SegyGeometry(files[idx])
                   /\ positions'[k] = SegyGeometry(files[idx])[k]
                \/ /\ pc = "merge"
                   /\ <<positions'[k]>> \in {XmlConsulted(k), CsvConsulted(k)}]_vars

\* the SAC-header step ran over a trace whose key already had another position
C2_Witness ==
    /\ pc = "check_pos"
    /\ SacConsulted("SGY.SGY.00001") # << >>
    /\ SegySays("SGY.SGY.00001") # << >>
    /\ positions["SGY.SGY.00001"] # SacConsulted("SGY.SGY.00001")[1]

(* ------------------------------------------------------------------ *)
(* Properties of the budget guard, dry run and exit (Spec)              *)
(* ------------------------------------------------------------------ *)
\* the estimate of lines 363-370 was made
Estimated == n_stations > 0

\* ceil((end - start) / step)
ClaimedFrames == CeilDiv(end - start, args.time_step)

\* frames x stations x 4 bytes x 1.5 exceeds max_mem_mb MiB, i.e.
\* 3 * frames * stations > max_mem_mb * 2^19
ClaimedMemoryExceeded ==
    LET x == 3 * ClaimedFrames * Cardinality(DOMAIN positions)
    IN  x > 0 /\ (x \div 524288 > args.max_mem_mb
                  \/ (x \div 524288 = args.max_mem_mb /\ x % 524288 > 0)
                  \/ args.max_mem_mb < 0)

ClaimedOverBudget == ClaimedFrames > args.max_frames \/ ClaimedMemoryExceeded

GuardDecided == Estimated /\ pc # "guard"

\* C5: once the guard has decided (for a positive step): a frame count above
\* --max-frames or a memory estimate above --max-mem-mb means the run was
\* rejected with a nonzero exit; a rejected run has not called prepare_meta
\* or make_animation and has trimmed and written nothing; a positive frame
\* count within both ceilings is not rejected.
C5_BudgetGuard ==
    (GuardDecided /\ args.time_step > 0) =>
        /\ ClaimedOverBudget => (outcome = "Rejected" /\ exit_code = <<1>>)
        /\ outcome = "Rejected" =>
              /\ ~prepare_invoked /\ ~animation_invoked /\ ~out_written
              /\ station_keys = << >> /\ times = << >>
        /\ (~ClaimedOverBudget /\ ClaimedFrames > 0) => outcome # "Rejected"

\* a run within --max-frames is rejected for its memory estimate
C5_Witness ==
    /\ GuardDecided /\ args.time_step > 0
    /\ outcome = "Rejected"
    /\ ClaimedFrames > 0 /\ ClaimedFrames <= args.max_frames
    /\ args.max_mem_mb > 0
    /\ ClaimedMemoryExceeded

\* C6: with --dry-run set, prepare_meta and make_animation are never
\* invoked and no output file is written; a run whose estimate passes the
\* guard ends right there with exit code 0.
C6_DryRunNoSideEffects ==
    args.dry_run =>
        /\ ~prepare_invoked /\ ~animation_invoked /\ ~out_written
        /\ station_keys = << >> /\ times = << >>
        /\ pc \notin {"prepare", "check_keys", "animate"}
        /\ (pc = "exit" /\ Estimated /\ outcome # "Rejected")
              => (outcome = "DryRun" /\ exit_code = <<0>>)

C6_Witness ==
    /\ args.dry_run /\ pc = "exit" /\ outcome = "DryRun"
    /\ Estimated /\ n_frames > 0
    /\ ~prepare_invoked /\ ~out_written

\* the transitions of the run's state machine, Failed being reachable from
\* every phase that is not terminal
ClaimedTransitions ==
    {<<"Idle", "FilesDiscovered">>, <<"FilesDiscovered", "PositionsResolved">>,
     <<"PositionsResolved", "BudgetChecked">>, <<"BudgetChecked", "Rejected">>,
     <<"BudgetChecked", "FramesPrepared">>, <<"FramesPrepared", "Rendered">>}
    \cup {<<p, "Failed">> : p \in {"Idle", "FilesDiscovered", "PositionsResolved",
                                    "BudgetChecked", "FramesPrepared"}}

\* C7 as claimed: every step stays in its phase or follows Idle ->
\* FilesDiscovered -> PositionsResolved -> BudgetChecked -> {Rejected |
\* FramesPrepared} -> Rendered | Failed, and a run that has ended is in one
\* of the terminal states Rejected, Rendered, Failed.
C7_StateMachineAsClaimed ==
    [][/\ (Phase' = Phase \/ <<Phase, Phase'>> \in ClaimedTransitions)
       /\ pc' = "exit" => Phase' \in {"Rejected", "Rendered", "Failed"}]_vars

\* how far main() has come: the position, and within the loop the file index
Progress ==
    LET ord == CASE pc = "start" -> 0 [] pc = "read" -> 1 [] pc = "merge" -> 2
                 [] pc = "check_pos" -> 3 [] pc = "window" -> 4 [] pc = "budget" -> 5
                 [] pc = "guard" -> 6 [] pc = "dry_run" -> 7 [] pc = "prepare" -> 8
                 [] pc = "check_keys" -> 9 [] pc = "animate" -> 10 [] pc = "exit" -> 11
    IN  ord * (Len(FileUniverse) + 2) + idx

\* C7 amended: as claimed, with one more terminal state: a dry run leaves
\* BudgetChecked for the terminal state DryRun (exit code 0); every step
\* moves main() forward, so a run ends, and a terminal state is never left.
C7_StateMachineWithDryRun ==
    [][/\ Progress' > Progress
       /\ \/ Phase' = Phase
          \/ <<Phase, Phase'>> \in ClaimedTransitions
          \/ (<<Phase, Phase'>> = <<"BudgetChecked", "DryRun">> /\ args.dry_run)
       /\ pc' = "exit" => Phase' \in {"Rejected", "Rendered", "Failed", "DryRun"}
       /\ pc = "exit" => (pc' = "exit" /\ Phase' = Phase)]_vars

C7_Witness ==
    /\ Phase = "Rendered"
    /\ prepare_invoked /\ animation_invoked /\ Estimated
    /\ station_keys # << >>

\* C8: a run that has ended has exit code 0 exactly when the animation was
\* rendered or a dry run passed the budget, and exit code nonzero when no
\* file was found, no position was resolved, the window is empty, a ceiling
\* is exceeded, no station survived trimming or make_animation failed.
C8_ExitCode ==
    pc = "exit" =>
        /\ exit_code = <<0>> <=>
              \/ (animation_invoked /\ outcome = "Rendered")
              \/ (args.dry_run /\ Estimated /\ args.time_step > 0
                    /\ ~ClaimedOverBudget /\ ClaimedFrames > 0)
        /\ files = << >> => exit_code # <<0>>
        /\ (files # << >> /\ DOMAIN positions = {}) => exit_code # <<0>>
        /\ (Estimated /\ start >= end) => exit_code # <<0>>
        /\ (Estimated /\ args.time_step > 0 /\ ClaimedOverBudget) => exit_code # <<0>>
        /\ (prepare_invoked /\ station_keys = << >>) => exit_code # <<0>>
        /\ (animation_invoked /\ outcome # "Rendered") => exit_code # <<0>>

\* a run that reached prepare_meta and lost every station to trimming
C8_Witness ==
    /\ pc = "exit" /\ exit_code = <<1>>
    /\ prepare_invoked /\ station_keys = << >> /\ times # << >>
    /\ ~animation_invoked

(* ------------------------------------------------------------------ *)
(* A coordinate table that matches no trace (Spec)                      *)
(* ------------------------------------------------------------------ *)
CsvKeys == {k \in KnownKeys : CsvSays(k) # << >>}

\* the table is the metadata source of the run, no row of it has the key of
\* a discovered trace and no SEG-Y geometry was extracted
UnmatchedTable ==
    /\ MergeDone
    /\ args.csv.given /\ ~args.xml.given
    /\ \A i \in 1..Len(st) : stream_station_key(st[i]) \notin CsvKeys
    /\ \A i \in 1..Len(files) : DOMAIN SegyGeometry(files[i]) = {}

\* C9 as claimed: with a table matching no trace the resolved mapping is
\* empty and the run exits nonzero without invoking prepare_meta.
C9_EmptyResolution ==
    UnmatchedTable =>
        /\ DOMAIN positions = {}
        /\ ~prepare_invoked
        /\ pc = "exit" => exit_code = <<1>>

\* C9 amended: with a table matching no trace the mapping holds exactly the
\* table's rows; make_animation is never invoked and nothing is written;
\* prepare_meta, when reached, returns no station key; the run ends with a
\* nonzero exit code unless it is a dry run; and a table without rows ends
\* the run nonzero before prepare_meta.
C9_NoStationSurvives ==
    UnmatchedTable =>
        /\ DOMAIN positions = CsvKeys
        /\ ~animation_invoked /\ ~out_written /\ pc # "animate"
        /\ station_keys = << >>
        /\ pc = "exit" => (exit_code = <<1>> \/ (args.dry_run /\ exit_code = <<0>>))
        /\ CsvKeys = {} =>
              /\ ~prepare_invoked /\ pc \in {"check_pos", "exit"}
              /\ pc = "exit" => exit_code = <<1>>

\* the unmatched rows passed the position check and prepare_meta ran
C9_Witness ==
    /\ UnmatchedTable /\ CsvKeys # {} /\ st # << >>
    /\ prepare_invoked /\ times # << >>
    /\ pc = "exit" /\ exit_code = <<1>>

FrameShown == pc \in {"frames", "exit"} /\ frame_i # << >>

FrameTime == times[frame_i[1] + 1]

KeyTrace(j) == station_traces[station_keys[j]]

\* the integer nearest to (t - start) * sampling_rate, the even one of the
\* two when both are equally near
ClaimedIndex(tr, t) ==
    LET num == (t - tr.starttime) * tr.sr
        lo == num \div tr.den
    IN  CHOOSE n \in lo..(lo + 1) :
            /\ Abs(2 * num - 2 * n * tr.den) <= tr.den
            /\ Abs(2 * num - 2 * n * tr.den) = tr.den => n % 2 = 0

ClaimedSample(tr, t) ==
    LET n == ClaimedIndex(tr, t)
    IN  IF n < 0 \/ n >= Len(tr.data) THEN 0 ELSE tr.data[n + 1]

\* every sampled value of the frame and of the reference series is the sample
\* at the rounded index, or 0 when that index is outside the array
SampledAsClaimed ==
    /\ \A j \in 1..Len(vals) : vals[j].num = ClaimedSample(KeyTrace(j), FrameTime)
    /\ \A i \in 1..Len(ref_amps) :
          ref_amps[i].num = ClaimedSample(KeyTrace(1), times[i])

\* C11 as claimed: a sampled value is the sample at index
\* round((t - start) * rate), 0.0 when that index is outside the array, and
\* any t before the start or after the end of the trace gives 0.0
C11_ZeroOutsideTrace ==
    FrameShown =>
        /\ SampledAsClaimed
        /\ \A j \in 1..Len(vals) :
              (FrameTime < KeyTrace(j).starttime \/ FrameTime > EndTime(KeyTrace(j)))
                  => vals[j].num = 0

\* t is more than half a sample interval before the start or after the end
BeyondHalfSample(tr, t) ==
    \/ 2 * (tr.starttime - t) * tr.sr > tr.den
    \/ 2 * (t - EndTime(tr)) * tr.sr > tr.den

\* C11 amended: a sampled value is the sample at index
\* round((t - start) * rate), 0.0 when that index is outside the array; a t
\* more than half a sample interval before the start or after the end of the
\* trace gives 0.0 (a t nearer than that is rounded onto the first or last
\* sample)
C11_ZeroBeyondHalfSample ==
    FrameShown =>
        /\ SampledAsClaimed
        /\ \A j \in 1..Len(vals) :
              BeyondHalfSample(KeyTrace(j), FrameTime) => vals[j].num = 0

\* a frame whose time is outside one station's trace and inside another's,
\* where that one has a non-zero sample
C11_Witness ==
    /\ FrameShown
    /\ \E j \in 1..Len(vals) : BeyondHalfSample(KeyTrace(j), FrameTime)
    /\ \E j \in 1..Len(vals) :
          /\ FrameTime >= KeyTrace(j).starttime /\ FrameTime <= EndTime(KeyTrace(j))
          /\ vals[j].num # 0

(* ------------------------------------------------------------------ *)
(* C12: the station keys prepare_meta returns                           *)
(* ------------------------------------------------------------------ *)
\* prepare_meta has returned
Prepared ==
    pc \in {"check_keys", "animate", "frames"} \/ (pc = "exit" /\ animation_invoked)

KeyAt(i) == stream_station_key(st[i])

\* the time of sample j (1, 2, ...) of a trace
SampleTime(tr, j) == tr.starttime + (((j - 1) * tr.den) \div tr.sr)

HasSampleInWindow(tr) ==
    \E j \in 1..Len(tr.data) : start <= SampleTime(tr, j) /\ SampleTime(tr, j) <= end

Range(seq) == {seq[j] : j \in 1..Len(seq)}

Least(S) == CHOOSE i \in S : \A j \in S : i <= j

\* the keys are listed once each, by increasing F
OrderedBy(keys, F(_)) ==
    \A a, b \in 1..Len(keys) : a < b => F(keys[a]) < F(keys[b])

\* t2 is a run of consecutive samples of tr, at their own times
IsSlice(t2, tr) ==
    \E a \in 1..Len(tr.data) : \E b \in a..Len(tr.data) :
        /\ t2.data = SubSeq(tr.data, a, b)
        /\ t2.starttime = SampleTime(tr, a)
        /\ t2.den = tr.den /\ t2.sr = tr.sr

\* no kept trace is empty and none holds a sample its input trace did not
NoEmptyNoPad ==
    \A k \in DOMAIN station_traces :
        /\ station_traces[k].data # << >>
        /\ \E i \in 1..Len(st) : KeyAt(i) = k /\ IsSlice(station_traces[k], st[i])

\* three traces of three stations, all with a position and all covering the window
ThreeStationsCoverWindow ==
    /\ Len(st) = 3
    /\ Cardinality({KeyAt(i) : i \in 1..3}) = 3
    /\ \A i \in 1..3 :
          /\ KeyAt(i) \in DOMAIN positions
          /\ st[i].starttime <= start /\ EndTime(st[i]) >= end

ThreeKeysInOrder ==
    ThreeStationsCoverWindow => station_keys = <<KeyAt(1), KeyAt(2), KeyAt(3)>>

ClaimedSurvivor(i) == KeyAt(i) \in DOMAIN positions /\ HasSampleInWindow(st[i])

FirstSeen(k) == Least({i \in 1..Len(st) : KeyAt(i) = k})

\* C12 as claimed: the key list holds exactly the keys with a position and a
\* sample inside [start, end], once each, in the order in which the keys first
\* occur among the input traces; no kept trace is empty or padded; three
\* stations covering the window give their 3 keys in that order
C12_KeysAsClaimed ==
    Prepared =>
        /\ Range(station_keys) = {KeyAt(i) : i \in {j \in 1..Len(st) : ClaimedSurvivor(j)}}
        /\ OrderedBy(station_keys, FirstSeen)
        /\ NoEmptyNoPad
        /\ ThreeKeysInOrder

\* trace i has a position and is left with a sample by the trimming
Survives(i) ==
    /\ KeyAt(i) \in DOMAIN positions
    /\ start <= end
    /\ Trim(st[i], start, end).data # << >>

FirstKept(k) == Least({i \in 1..Len(st) : KeyAt(i) = k /\ Survives(i)})

\* every kept sample is at most half a sample interval outside [start, end]
WithinHalfSample ==
    \A k \in DOMAIN station_traces :
        LET tr == station_traces[k]
        IN  \A j \in 1..Len(tr.data) :
                /\ 2 * (start - SampleTime(tr, j)) * tr.sr <= tr.den
                /\ 2 * (SampleTime(tr, j) - end) * tr.sr <= tr.den

\* C12 amended: the key list holds exactly the keys with a position and a
\* trace that the nearest-sample trimming leaves with a sample (every kept
\* sample is at most half a sample interval outside [start, end]), once each,
\* in the order in which the first such trace of each key occurs in the
\* input; no kept trace is empty or padded; three stations covering the
\* window give their 3 keys in input order
C12_KeysOfCode ==
    Prepared =>
        /\ Range(station_keys) = {KeyAt(i) : i \in {j \in 1..Len(st) : Survives(j)}}
        /\ OrderedBy(station_keys, FirstKept)
        /\ NoEmptyNoPad
        /\ WithinHalfSample
        /\ ThreeKeysInOrder

\* three stations with positions cover the window and give three keys
C12_Witness ==
    /\ Prepared
    /\ ThreeStationsCoverWindow
    /\ station_keys = <<"XX.ABC", "XX.DEF", "XX.GHI">>

(* ------------------------------------------------------------------ *)
(* C13: a trace inside the window is not trimmed                        *)
(* ------------------------------------------------------------------ *)
\* trace i has a position and all its samples lie within [start, end]
InsideWindow(i) ==
    /\ KeyAt(i) \in DOMAIN positions
    /\ st[i].data # << >>
    /\ start <= st[i].starttime /\ EndTime(st[i]) <= end

\* t2 has the samples of tr, in their order, and its start time
SameSamples(t2, tr) == t2.data = tr.data /\ t2.starttime = tr.starttime

\* C13 as claimed: for every input trace with a position and all its samples
\* within [start, end], the trace kept under its key has the same samples in
\* the same order and the same start time
C13_EveryInsideTraceKept ==
    Prepared =>
        \A i \in 1..Len(st) :
            InsideWindow(i) =>
                /\ KeyAt(i) \in DOMAIN station_traces
                /\ SameSamples(station_traces[KeyAt(i)], st[i])

\* no later trace of the same key survives the trimming
LastOfItsKey(i) ==
    \A j \in (i + 1)..Len(st) : ~(KeyAt(j) = KeyAt(i) /\ Survives(j))

\* C13 amended: for every input trace with a position and all its samples
\* within [start, end], the trimming removes no sample and keeps the start
\* time, and the trace kept under its key has the same samples in the same
\* order and the same start time unless a later trace of the same key also
\* survives the trimming (that later trace is then the one kept)
C13_LastInsideTraceKept ==
    Prepared =>
        \A i \in 1..Len(st) :
            InsideWindow(i) =>
                /\ SameSamples(Trim(st[i], start, end), st[i])
                /\ KeyAt(i) \in DOMAIN station_traces
                /\ LastOfItsKey(i) => SameSamples(station_traces[KeyAt(i)], st[i])

\* a trace of several samples inside the window is kept whole while another
\* trace of the stream is cut
C13_Witness ==
    /\ Prepared
    /\ \E i \in 1..Len(st) :
          /\ InsideWindow(i) /\ LastOfItsKey(i) /\ Len(st[i].data) > 1
          /\ SameSamples(station_traces[KeyAt(i)], st[i])
    /\ \E i \in 1..Len(st) :
          /\ Survives(i) /\ LastOfItsKey(i)
          /\ Len(station_traces[KeyAt(i)].data) < Len(st[i].data)

(* ------------------------------------------------------------------ *)
(* C14: the peak amplitude of a station                                 *)
(* ------------------------------------------------------------------ *)
\* p is the larger of 1 and the largest magnitude of the samples
IsPeakOf(p, data) ==
    /\ p >= 1
    /\ \A j \in 1..Len(data) : Abs(data[j]) <= p
    /\ p = 1 \/ \E j \in 1..Len(data) : Abs(data[j]) = p

AllZero(data) == \A j \in 1..Len(data) : data[j] = 0

\* C14: the peak of every surviving station is max(1.0, largest magnitude of
\* its trimmed trace) and so at least 1.0; a station whose samples are all
\* zero has peak 1.0 and the entry 0.0 in every frame; no normalisation
\* divides by zero
C14_PeakAtLeastOne ==
    /\ Prepared =>
          \A k \in DOMAIN station_max :
              /\ k \in DOMAIN station_traces
              /\ IsPeakOf(station_max[k], station_traces[k].data)
              /\ AllZero(station_traces[k].data) => station_max[k] = 1
    /\ FrameShown =>
          \A j \in 1..Len(vals) :
              /\ vals[j].den >= 1
              /\ AllZero(KeyTrace(j).data) => vals[j] = Quot(0, 1)
    /\ \A i \in 1..Len(ref_amps) : ref_amps[i].den >= 1
    /\ raised # "ZeroDivisionError"

\* a frame with an all-zero station beside a station of peak above 1
C14_Witness ==
    /\ FrameShown
    /\ \E j \in 1..Len(vals) : AllZero(KeyTrace(j).data) /\ vals[j] = Quot(0, 1)
    /\ \E j \in 1..Len(vals) : vals[j].den > 1 /\ vals[j].num # 0

(* ------------------------------------------------------------------ *)
(* C15: the values of one frame                                         *)
(* ------------------------------------------------------------------ *)
\* C15: the values of every frame i hold one entry per surviving station key,
\* in the order of the key list of prepare_meta, which is the order of the
\* plotted coordinates; the entry of key k is the sample of its trace at
\* times[i] divided by its peak
C15_FrameVector ==
    FrameShown =>
        /\ Len(vals) = Len(station_keys)
        /\ Len(lats) = Len(station_keys) /\ Len(lons) = Len(station_keys)
        /\ Cardinality(Range(station_keys)) = Len(station_keys)
        /\ Range(station_keys) = DOMAIN station_traces
        /\ \A j \in 1..Len(station_keys) :
              /\ vals[j] = Quot(ClaimedSample(KeyTrace(j), FrameTime),
                                station_max[station_keys[j]])
              /\ <<lats[j], lons[j]>> = positions[station_keys[j]]

\* a later frame of several stations whose entries differ
C15_Witness ==
    /\ FrameShown
    /\ frame_i[1] > 0
    /\ Len(vals) = 3
    /\ vals[1] # vals[2] /\ vals[2] # vals[3] /\ vals[1] # vals[3]

(* ------------------------------------------------------------------ *)
(* C16: a file that cannot be parsed                                    *)
(* ------------------------------------------------------------------ *)
\* the SEG-Y conversion is tried for the file and gives its traces
ParsesAsSegy(f) ==
    f.ext \in {"sgy", "segy"} /\ HAS_SEGYIO /\ segy_to_stream(f).kind = "ok"

\* c is what file f is to add to the stream: one trace per SEG-Y trace when
\* the SEG-Y conversion succeeds, else all the traces the generic reader
\* gives, nothing when that fails too
IsContributionOf(c, f) ==
    IF ParsesAsSegy(f)
    THEN /\ Len(c) = Len(f.segy.hdrs)
         /\ \A i \in 1..Len(c) :
               /\ c[i].data = f.segy.hdrs[i].data
               /\ c[i].starttime = f.segy.hdrs[i].starttime
    ELSE IF f.read.ok THEN c = f.read.traces
    ELSE c = << >>

\* C16: reading a file never ends the run; a file that fails to parse adds
\* no trace (a SEG-Y file whose conversion fails is first given to the
\* generic reader), a file that parses adds all its traces, and the traces of
\* the files read before stay in the stream
C16_FailureIsolation ==
    [][pc = "read" =>
          /\ pc' \in {"read", "merge"}
          /\ exit_code' = << >>
          /\ Len(st') >= Len(st)
          /\ SubSeq(st', 1, Len(st)) = st
          /\ IsContributionOf(SubSeq(st', Len(st) + 1, Len(st')), files[idx])]_vars

\* an unreadable file followed by a SEG-Y file whose conversion fails and
\* which the generic reader reads
C16_Witness ==
    /\ pc = "merge" /\ HAS_SEGYIO /\ Len(files) = 2
    /\ ~files[1].read.ok /\ ~ParsesAsSegy(files[1])
    /\ files[2].ext \in {"sgy", "segy"} /\ ~ParsesAsSegy(files[2])
    /\ st = files[2].read.traces /\ st # << >>

(* ------------------------------------------------------------------ *)
(* C17: KeyboardInterrupt in the loop of the batch scripts              *)
(* ------------------------------------------------------------------ *)
\* C17: once a KeyboardInterrupt has arrived in the per-earthquake loop,
\* while an earthquake is processed or during the wait, no further iteration
\* is started: the loop index stays, the batch is at its summary or ended,
\* and no further GMV subprocess is launched
C17_NoIterationAfterInterrupt ==
    [][interrupted_at' # << >> =>
          /\ eq_idx' = eq_idx
          /\ b_pc' \in {"summary", "killed", "exit"}
          /\ interrupted_at # << >> => launched' = launched]_vars

\* the batch has ended after an interrupt that arrived while an earthquake
\* other than the last one was processed
C17_Witness ==
    /\ b_pc = "exit"
    /\ interrupted_at = <<eq_idx>>
    /\ eq_idx >= 2 /\ eq_idx < Len(earthquakes)
    /\ successful + failed = eq_idx - 1

(* ------------------------------------------------------------------ *)
(* C18: a station,latitude,longitude row and a trace without network    *)
(* ------------------------------------------------------------------ *)
\* the station names of the station,latitude,longitude rows of --csv
StationOnlyRows == {r[1] : r \in {q \in Range(args.csv.rows) : Len(q) = 3}}

\* C18 as claimed: a station,latitude,longitude row is keyed by the station
\* name alone, a trace whose network code is not set has the station name
\* alone as its key, and so such a trace with samples in the window is
\* resolved by the row of its station and survives prepare_meta
C18_StationOnlyKey ==
    /\ \A r \in Range(args.csv.rows) :
          (args.csv.given /\ ~args.xml.given /\ Len(r) = 3 /\ MergeDone)
              => (r[1] \in DOMAIN positions /\ positions[r[1]] = <<r[2], r[3]>>)
    /\ \A i \in 1..Len(st) :
          (Prepared /\ st[i].net = "" /\ st[i].sta \in StationOnlyRows
                    /\ HasSampleInWindow(st[i])) =>
              /\ KeyAt(i) = st[i].sta
              /\ st[i].sta \in Range(station_keys)

(* ------------------------------------------------------------------ *)
(* C19: what frame generation and prepare_meta leave alone              *)
(* ------------------------------------------------------------------ *)
\* C19: from the return of prepare_meta on, setting up the animation
\* (sampling the reference station) and any update(i), in any order, leave
\* the trimmed traces, the peaks, the key list and the time grid as they
\* are; prepare_meta itself leaves the input traces as they are
C19_FramesReadOnly ==
    [][/\ pc \in {"animate", "frames"} =>
             /\ station_traces' = station_traces
             /\ station_max' = station_max
             /\ station_keys' = station_keys
             /\ times' = times
       /\ pc \in {"prepare", "check_keys", "animate", "frames"} => st' = st]_vars

\* frames have been computed from a trace that prepare_meta cut, whose input
\* trace is still whole
C19_Witness ==
    /\ FrameShown /\ pc = "frames"
    /\ Len(times) > 1
    /\ ref_amps # << >>
    /\ \E i \in 1..Len(st) :
          /\ Survives(i) /\ LastOfItsKey(i)
          /\ station_traces[KeyAt(i)].data # st[i].data
          /\ st[i] \in Range(FrameTraces)

(* ------------------------------------------------------------------ *)
(* C20: the three results of prepare_meta agree                         *)
(* ------------------------------------------------------------------ *)
Greatest(S) == CHOOSE i \in S : \A j \in S : i >= j

\* the last input trace of key k that the trimming leaves with a sample
LastKept(k) == Greatest({i \in 1..Len(st) : KeyAt(i) = k /\ Survives(i)})

\* the kept traces, the peaks and the key list have the same keys, all of
\* them keys with a position, and the trace and the peak kept for a key both
\* come from the last input trace of that key that survived the trimming
ResultsAgree ==
    /\ DOMAIN station_traces = DOMAIN station_max
    /\ DOMAIN station_traces = Range(station_keys)
    /\ Len(station_keys) = Cardinality(Range(station_keys))
    /\ DOMAIN station_traces \subseteq DOMAIN positions
    /\ \A k \in DOMAIN station_traces :
          /\ station_traces[k] = Trim(st[LastKept(k)], start, end)
          /\ IsPeakOf(station_max[k], Trim(st[LastKept(k)], start, end).data)

\* C20 as claimed: after prepare_meta the three results agree as above and
\* every key stands in the list at its first-seen position, the place of the
\* first input trace of that key
C20_FirstSeenPosition ==
    Prepared => (ResultsAgree /\ OrderedBy(station_keys, FirstSeen))

\* C20 amended: after prepare_meta the three results agree as above and
\* every key stands in the list at the place of the first input trace of
\* that key that survived the trimming
C20_ConsistentKeys ==
    Prepared => (ResultsAgree /\ OrderedBy(station_keys, FirstKept))

\* two surviving traces of one key with another key between them: the key
\* keeps the first place, the trace and the peak are those of the later trace
C20_Witness ==
    /\ Prepared
    /\ Len(st) = 3 /\ Survives(1) /\ Survives(2) /\ Survives(3)
    /\ KeyAt(1) = KeyAt(3) /\ KeyAt(1) # KeyAt(2)
    /\ station_keys = <<KeyAt(1), KeyAt(2)>>
    /\ station_traces[KeyAt(1)] = Trim(st[3], start, end)
    /\ station_max[KeyAt(1)] # PeakAmplitude(Trim(st[1], start, end).data)

(* ------------------------------------------------------------------ *)
(* C21: the estimate of the budget guard and the result of prepare_meta *)
(* (Spec)                                                               *)
(* ------------------------------------------------------------------ *)
\* prepare_meta has returned its result to main()
PrepareReturned == pc \in {"check_keys", "animate"} \/ animation_invoked

\* the stations that survive Prepare
Survivors == DOMAIN station_traces

\* C21: once prepare_meta has returned, the time grid has as many entries as
\* the frame count the guard estimated, ceil((end - start) / step), which is
\* positive and at most --max-frames (until line 403 replaces it by
\* len(times), n_frames still holds the estimate); the station count of the
\* guard is max(1, number of resolved positions) and is at least the number
\* of surviving stations, each of which has a resolved position.
C21_GuardCoversGrid ==
    PrepareReturned =>
        /\ Len(times) = ClaimedFrames
        /\ n_frames = Len(times)
        /\ Len(times) > 0 /\ Len(times) <= args.max_frames
        /\ n_stations = Max2(1, Cardinality(DOMAIN positions))
        /\ Survivors \subseteq DOMAIN positions
        /\ Len(station_keys) = Cardinality(Survivors)
        /\ n_stations >= Cardinality(Survivors)

\* a run of exactly --max-frames frames whose duration is not a multiple of
\* the step, with more resolved positions than surviving stations, is
\* rendered
C21_Witness ==
    /\ outcome = "Rendered"
    /\ Len(times) = args.max_frames
    /\ (end - start) % args.time_step # 0
    /\ Survivors # {}
    /\ n_stations > Cardinality(Survivors)

(* ------------------------------------------------------------------ *)
(* C22: the loop of the batch scripts (BatchSpec)                       *)
(* ------------------------------------------------------------------ *)
\* no entry of the list is earlier than an entry before it
AscendingTime(eqs) ==
    \A i, j \in 1..Len(eqs) : i < j => eqs[i].time[1] <= eqs[j].time[1]

\* no event occurs twice in the list
EachOnce(eqs) ==
    \A i, j \in 1..Len(eqs) : i # j => eqs[i].usgs_id # eqs[j].usgs_id

\* the place of an event in the list of earthquakes
PlaceOf(e) == CHOOSE p \in 1..Len(earthquakes) : earthquakes[p] = e

\* the number of earthquakes whose iteration has completed: the try
\* statement of the current one is running or was left by the interrupt
Completed ==
    IF b_pc = "try" \/ (interrupted_at # << >> /\ b_pc \in {"summary", "exit"})
    THEN eq_idx - 1
    ELSE eq_idx

\* the for statement ended by itself
LoopEndedWithoutInterrupt ==
    b_pc \in {"summary", "exit"} /\ interrupted_at = << >> /\ earthquakes # << >>

\* the states of the loop
BatchLoopState ==
    /\ EachOnce(earthquakes) /\ AscendingTime(earthquakes)
    /\ EachOnce(launched) /\ AscendingTime(launched)
    /\ \A i \in 1..Len(launched) :
          /\ \E p \in 1..eq_idx : earthquakes[p] = launched[i]
          /\ i > 1 => PlaceOf(launched[i - 1]) < PlaceOf(launched[i])
    /\ report_only => launched = << >>
    /\ successful + failed = Completed
    /\ LoopEndedWithoutInterrupt =>
          /\ eq_idx = Len(earthquakes)
          /\ successful + failed = Len(earthquakes)

\* the steps of the loop
BatchLoopStep ==
    /\ eq_idx' # eq_idx => (eq_idx' = eq_idx + 1 /\ b_pc' = "try")
    /\ Len(launched') <= Len(launched) + 1
    /\ (b_pc = "try" /\ interrupted_at' = << >>) =>
          /\ successful' + failed' = successful + failed + 1
          /\ b_pc' = "after"
          /\ (launched' # launched /\ successful' = successful) => failed' = failed + 1
    /\ failed' # failed =>
          /\ failed' = failed + 1 /\ successful' = successful
          /\ b_pc' = "after" /\ eq_idx' = eq_idx
    /\ (b_pc # "summary" /\ b_pc' = "summary" /\ interrupted_at' = << >>) =>
          eq_idx = Len(earthquakes)

\* C22: the list of earthquakes holds each event once in ascending event
\* time; the loop takes them one at a time in that order, so the GMV
\* subprocesses are started for different events in ascending event time, at
\* most one per step; an iteration that is not interrupted counts exactly one
\* of successful and failed, a launch that does not succeed counts failed,
\* and a failure leaves the loop at the end of the iteration with the
\* following earthquakes still to come (the loop ends by itself only behind
\* the last earthquake); successful + failed is the number of completed
\* iterations, and the number of earthquakes when the loop ended without
\* interrupt; in report-only mode nothing is launched.
C22_BatchLoop == []BatchLoopState /\ [][BatchLoopStep]_vars

\* a batch whose answer was not in time order ended by itself: three
\* subprocesses were started, the first or second of which failed
C22_Witness ==
    /\ b_pc = "exit" /\ interrupted_at = << >> /\ ~report_only
    /\ Len(earthquakes) = 3
    /\ earthquakes[1].usgs_id > earthquakes[2].usgs_id
    /\ earthquakes[2].time = earthquakes[3].time
    /\ launched = earthquakes
    /\ successful = 2 /\ failed = 1

====
